---- MODULE Spec2Model ----
(***************************************************************************)
(* Model of the world simulation engine (backend/sim/world.py), the        *)
(* scenario generator (backend/sim/scenario.py), the routing environment   *)
(* (backend/sim/env_routing.py), the routing bandit controller             *)
(* (backend/sim/agent_routing_bandit.py), the failure-response environment *)
(* and agent (backend/sim/env_failure.py, agent_failure.py), the RL-lite   *)
(* routes (backend/api/sim_routes.py), the orchestrator                    *)
(* (backend/main.py, backend/routes/state.py) and the TLE service          *)
(* (backend/services/starlink.py).                                         *)
(*                                                                         *)
(* Units.  Floats of the source are fixed-point integers here:             *)
(*   capacity_flops      TFLOPS            (150e12 -> 150)                 *)
(*   power_cost_per_kwh  1e-3 $/kWh        (0.05   -> 50)                  *)
(*   job.flops           1e12 FLOP, job.size_gb in GB                      *)
(*   latency_ms, latency_slo_ms   ms                                       *)
(*   cost_usd, reward    1e-7                                              *)
(*   load multipliers, arrival rates   tenths                              *)
(*   congestion_level    hundredths                                        *)
(*   orbital and ground power     20 W; orbitSharePercent a fraction       *)
(*   file contents, TLE lines     sequences of one-character strings       *)
(* Job ids are the counter value n of "job_<n>".                           *)
(*                                                                         *)
(* The bandit's state vector keeps the five features that are exact in     *)
(* fixed point (size, flops, SLO, mean and max congestion), each in        *)
(* hundredths; the three rtt features are functions of the link table      *)
(* alone.  The weights w are in units of lr * 1e-4.                        *)
(*                                                                         *)
(* Every action is one whole call.  `call` records the last call and what  *)
(* it returned or raised.                                                  *)
(***************************************************************************)
EXTENDS Integers, Sequences, FiniteSets, TLC

\* ------------------------------------------------------------------ bounds
MaxSats  == 1     \* satellites handed to initialize
MaxJobs  == 3     \* cap on job_counter where route_job is called directly
MaxAgentJobs == 2 \* cap on job_counter in the other specifications
MaxBatch == 1     \* cap on the jobs one generate_jobs call appends
MaxCuts  == 2     \* cap on len(fiber_cuts)
MaxRerouteJobs == 11  \* cap on job_counter where routes are halved
MaxFailSteps == 6     \* cap on the clock steps of the failure agent
MaxTicks == 4         \* cap on control["tick"]
MaxTleGroups == 2     \* cap on the groups of a text handed to _parse_tles

\* ------------------------------------------------------- program constants
GroundCapacity == 150
GroundPowerCost == 50
LeoCapacity == 10
GroundLatency == 10
LeoLatency == 50
SloPenalty == 50000000
RerouteThreshold == 10   \* trigger_global_reroute: len(active_routes) > 10
window_size == 5         \* FailureEnvV1.window_size
CacheTicks == 2          \* get_state: tick_diff <= 2
GlobalThreshold == 20    \* get_state: global_sat_count > 20
DummySatellites == 21    \* startup: range(9000), scaled to pass the test
                         \* global_sat_count > 20 and no further

NoneValue == "None"

Min2(a, b) == IF a <= b THEN a ELSE b
Max2(a, b) == IF a >= b THEN a ELSE b

\* TOPOLOGY["groundSites"]: id and region, in table order
GroundSites ==
  << [id |-> "abilene_edge", region |-> "southwest"],
     [id |-> "nova_hub",     region |-> "east_coast"],
     [id |-> "dfw_hub",      region |-> "southwest"],
     [id |-> "phx_hub",      region |-> "west_coast"] >>

\* TOPOLOGY["gateways"]: ids, in table order
Gateways == << "abilene_gateway", "dfw_gateway", "nova_gateway", "phx_gateway" >>

GatewayIds == { Gateways[i] : i \in 1..Len(Gateways) }

\* f"leo_{i}"
LeoNames ==
  << "leo_0", "leo_1", "leo_2", "leo_3", "leo_4", "leo_5", "leo_6", "leo_7",
     "leo_8", "leo_9", "leo_10", "leo_11", "leo_12", "leo_13", "leo_14",
     "leo_15", "leo_16", "leo_17", "leo_18", "leo_19", "leo_20", "leo_21" >>
LeoId(i) == LeoNames[i + 1]

\* WORKLOAD_PROFILE["hourly_arrival_rates"], in tenths
HourlyArrivalRates ==
  << 8, 6, 5, 4, 5, 7, 10, 12, 14, 15, 14, 13,
     12, 11, 10, 11, 12, 13, 14, 13, 11, 9, 8, 7 >>

\* WORKLOAD_PROFILE["job_classes"]: the deadline_ms of each class
JobClasses ==
  << [name |-> "inference", deadline_ms |-> 20],
     [name |-> "training",  deadline_ms |-> 1000],
     [name |-> "batch",     deadline_ms |-> 5000] >>

\* ----------------------------------------------------- sampled input sets
Hours == {3, 9}                   \* datetime.now().hour
ClassDraws == {1, 2}              \* random.choices: index into job_classes
SizesGb == {3}                    \* exp(normalvariate(mu, sigma)), in GB
RegionPairs == { <<"north_america", "europe">>, <<"southwest", "orbit">> }
EngineRegionPairs == { <<"southwest", "orbit">> }
ShellRegions == {"pacific", "orbit"}
ShellIds == {"shell_1"}
LoadRegions == {"east_asia"}
LoadMultipliers == {30}
ScenarioIds == {"default", "asia_sports_final", "transatlantic_fiber_cut",
                "leo_shell_outage", "no_such_scenario"}
NodeIdInputs == {"abilene_edge", "abilene_gateway", "leo_0", "no_such_node"}

VARIABLES
  satellites,                \* World.satellites: how many satellites
  time_s,                    \* World.time_s
  pending_jobs,              \* World.pending_jobs
  active_routes,             \* World.active_routes
  nodes,                     \* World.nodes, in insertion order
  links,                     \* World.links, in insertion order
  job_counter,               \* World.job_counter
  regional_load_multipliers, \* World.regional_load_multipliers
  fiber_cuts,                \* World.fiber_cuts
  disabled_shells,           \* World.disabled_shells
  w,                         \* RoutingBanditAgent.w
  last_job,                  \* RoutingEnvV1.last_job (job id, -1 = None)
  last_action_node,          \* RoutingEnvV1.last_action_node (id, "" = None)
  call,                      \* the last call made and what it returned
  history,                   \* FailureEnvV1.history
  failure_w,                 \* FailureAgent.w
  last_state,                \* FailureAgent._last_state
  main_satellites,           \* main.satellites: how many satellites
  startup_status,            \* where startup() is: not run, done, raised
  tasks,                     \* the tasks startup() has created
  tick_task,                 \* update_simulation: where its loop is,
                             \* whether its last iteration logged an error
  sim_state,                 \* main.sim_state
  all_satellites_global,     \* main.all_satellites_global
  control,                   \* main.control
  state_cache,               \* main._state_cache
  cache_tick,                \* main._cache_tick
  sim_lock,                  \* main.sim_lock: its holder
  req,                       \* the request handlers in flight
  response,                  \* the last response sent
  cache_file,                \* StarlinkService.cache_file: the file there
  cache_time_file,           \* StarlinkService.cache_time_file: the file
  service_satellites,        \* StarlinkService.satellites
  tle_data,                  \* StarlinkService.tle_data
  workers                    \* the threads running step_routing: where
                             \* each is and its local variables

vars == << satellites, time_s, pending_jobs, active_routes, nodes, links,
           job_counter, regional_load_multipliers, fiber_cuts,
           disabled_shells, w, last_job, last_action_node, call,
           history, failure_w, last_state,
           main_satellites, startup_status, tasks, tick_task, sim_state,
           all_satellites_global, control, state_cache, cache_tick,
           sim_lock, req, response,
           cache_file, cache_time_file, service_satellites, tle_data,
           workers >>

worldVars == << satellites, time_s, pending_jobs, active_routes, nodes, links,
                job_counter, regional_load_multipliers, fiber_cuts,
                disabled_shells >>

agentVars == << w, last_job, last_action_node >>

scenarioVars == << regional_load_multipliers, fiber_cuts, disabled_shells >>

failureVars == << history, failure_w, last_state >>

orchVars == << main_satellites, startup_status, tasks, tick_task, sim_state,
               all_satellites_global, control, state_cache, cache_tick,
               sim_lock, req, response >>

starlinkVars == << cache_file, cache_time_file, service_satellites,
                  tle_data >>

poolVars == << workers >>

\* ------------------------------------------------------------ World engine

\* World._build_nodes
RECURSIVE LeoNodes(_, _)
LeoNodes(i, n) ==
  IF i >= n THEN << >>
  ELSE << [id |-> LeoId(i), node_type |-> "leo", region |-> "orbit",
           capacity_flops |-> LeoCapacity, power_cost_per_kwh |-> 0] >>
       \o LeoNodes(i + 1, n)

BuildNodes(n) ==
  [ i \in 1..Len(GroundSites) |->
      [id |-> GroundSites[i].id, node_type |-> "ground",
       region |-> GroundSites[i].region,
       capacity_flops |-> GroundCapacity,
       power_cost_per_kwh |-> GroundPowerCost] ]
  \o [ i \in 1..Len(Gateways) |->
      [id |-> Gateways[i], node_type |-> "ground", region |-> "gateway",
       capacity_flops |-> 0, power_cost_per_kwh |-> 0] ]
  \o LeoNodes(0, n)

\* World._build_links: link_<k> is the k-th element (k from 0)
BuildLinks(n) ==
  [ k \in 1..(n * Len(Gateways)) |->
      [src_id |-> LeoId((k - 1) \div Len(Gateways)),
       dst_id |-> Gateways[((k - 1) % Len(Gateways)) + 1],
       congestion_level |-> 0] ]
  \o [ k \in 1..(Len(Gateways) * Len(GroundSites)) |->
      [src_id |-> Gateways[((k - 1) \div Len(GroundSites)) + 1],
       dst_id |-> GroundSites[((k - 1) % Len(GroundSites)) + 1].id,
       congestion_level |-> 0] ]

\* next((j for j in self.pending_jobs if j.id == job_id), None)
HasJob(pend, job_id) == \E i \in 1..Len(pend) : pend[i].id = job_id
FindJob(pend, job_id) ==
  pend[CHOOSE i \in 1..Len(pend) :
         pend[i].id = job_id /\ \A k \in 1..(i - 1) : pend[k].id # job_id]

\* self.nodes.get(node_id)
HasNode(ns, node_id) == \E i \in 1..Len(ns) : ns[i].id = node_id
GetNode(ns, node_id) == ns[CHOOSE i \in 1..Len(ns) : ns[i].id = node_id]

\* self.disabled_shells.values()
ShellValues(ds) == { ds[s] : s \in DOMAIN ds }

\* every LEO node dropped as soon as any shell is disabled
RECURSIVE CandidateLoopAnyShell(_, _, _)
CandidateLoopAnyShell(ns, ds, i) ==
  IF i > Len(ns) THEN << >>
  ELSE LET node == ns[i]
           rest == CandidateLoopAnyShell(ns, ds, i + 1)
       IN  IF node.id \in GatewayIds THEN rest
           ELSE IF node.node_type = "leo" /\ DOMAIN ds # {} THEN rest
           ELSE IF node.capacity_flops > 0 THEN << node >> \o rest
           ELSE rest

\* World.get_candidate_nodes_for_job
RECURSIVE CandidateLoop(_, _, _)
CandidateLoop(ns, ds, i) ==
  IF i > Len(ns) THEN << >>
  ELSE LET node == ns[i]
           rest == CandidateLoop(ns, ds, i + 1)
       IN  IF node.id \in GatewayIds THEN rest
           ELSE IF node.node_type = "leo" /\ node.region \in ShellValues(ds)
                THEN rest
           ELSE IF node.capacity_flops > 0 THEN << node >> \o rest
           ELSE rest

get_candidate_nodes_for_job(pend, ns, ds, job_id) ==
  IF ~HasJob(pend, job_id) THEN << >> ELSE CandidateLoop(ns, ds, 1)

\* route_job, lines 214-223: baseline, then one doubling per matching cut
RECURSIVE CutLoop(_, _, _, _)
CutLoop(latency, region, cuts, i) ==
  IF i > Len(cuts) THEN latency
  ELSE CutLoop(IF region \in {cuts[i][1], cuts[i][2]}
               THEN latency * 2 ELSE latency,
               region, cuts, i + 1)

BaseLatency(node) ==
  IF node.node_type = "leo" THEN LeoLatency ELSE GroundLatency

RouteLatency(node, cuts) == CutLoop(BaseLatency(node), node.region, cuts, 1)

\* route_job, line 226 (defined when capacity_flops # 0)
CostUsd(job, node) ==
  (job.flops * node.power_cost_per_kwh) \div node.capacity_flops

\* a violation flagged as soon as the latency reaches the SLO
SloViolatedAtSlo(latency_ms, job) == latency_ms >= job.latency_slo_ms

\* route_job, line 229
SloViolated(latency_ms, job) == latency_ms > job.latency_slo_ms

\* a pop of the queue head in place of the filter on the id
RemoveJobHead(pend, job_id) == Tail(pend)

\* the routed job left on the queue
RemoveJobKept(pend, job_id) == pend

RemoveJob(pend, job_id) == SelectSeq(pend, LAMBDA j : j.id # job_id)

\* route_job with the job taken off the queue before the node is looked up
route_job_early_removal(pend, routes, ns, cuts, job_id, node_id) ==
  IF ~HasJob(pend, job_id)
  THEN [pending_jobs |-> pend, active_routes |-> routes,
        result |-> [kind |-> "error", error |-> "job_not_found"]]
  ELSE IF ~HasNode(ns, node_id)
  THEN [pending_jobs |-> RemoveJob(pend, job_id), active_routes |-> routes,
        result |-> [kind |-> "error", error |-> "node_not_found"]]
  ELSE LET job == FindJob(pend, job_id)
           node == GetNode(ns, node_id)
           latency_ms == RouteLatency(node, cuts)
       IN  IF node.capacity_flops = 0
           THEN [pending_jobs |-> RemoveJob(pend, job_id),
                 active_routes |-> routes,
                 result |-> [kind |-> "raise", exc |-> "ZeroDivisionError"]]
           ELSE [pending_jobs |-> RemoveJob(pend, job_id),
                 active_routes |-> Append(routes,
                    [job_id |-> job_id, target_node_id |-> node_id,
                     source |-> "rule_based"]),
                 result |-> [kind |-> "metrics",
                             latency_ms |-> latency_ms,
                             cost_usd |-> CostUsd(job, node),
                             slo_violated |-> SloViolated(latency_ms, job)]]

\* World.route_job: the new pending queue, the new route list and the
\* outcome (an error dict, a raised exception, or the metrics dict)
route_job(pend, routes, ns, cuts, job_id, node_id) ==
  IF ~HasJob(pend, job_id)
  THEN [pending_jobs |-> pend, active_routes |-> routes,
        result |-> [kind |-> "error", error |-> "job_not_found"]]
  ELSE IF ~HasNode(ns, node_id)
  THEN [pending_jobs |-> pend, active_routes |-> routes,
        result |-> [kind |-> "error", error |-> "node_not_found"]]
  ELSE LET job == FindJob(pend, job_id)
           node == GetNode(ns, node_id)
           latency_ms == RouteLatency(node, cuts)
       IN  IF node.capacity_flops = 0
           THEN [pending_jobs |-> RemoveJob(pend, job_id),
                 active_routes |-> routes,
                 result |-> [kind |-> "raise", exc |-> "ZeroDivisionError"]]
           ELSE [pending_jobs |-> RemoveJob(pend, job_id),
                 active_routes |-> Append(routes,
                    [job_id |-> job_id, target_node_id |-> node_id,
                     source |-> "rule_based"]),
                 result |-> [kind |-> "metrics",
                             latency_ms |-> latency_ms,
                             cost_usd |-> CostUsd(job, node),
                             slo_violated |-> SloViolated(latency_ms, job)]]

\* World.generate_jobs: the job count of one call
NumJobs(hour, mults) ==
  LET multiplier == IF DOMAIN mults = {} THEN 10
                    ELSE Max2(10, CHOOSE m \in { mults[r] : r \in DOMAIN mults } :
                                    \A r \in DOMAIN mults : mults[r] <= m)
  IN  (HourlyArrivalRates[(hour % 24) + 1] * multiplier)

\* World.generate_jobs, lines 273-280: the k-th job of a batch
NewJob(counter, class, size_gb) ==
  [id |-> counter, size_gb |-> size_gb, flops |-> size_gb,
   latency_slo_ms |-> class.deadline_ms,
   deadline_s |-> class.deadline_ms,
   jitter_tolerance_ms |-> class.deadline_ms \div 10]

\* advance_time, lines 291-295: congestion of every link
Congestion(routes, link) ==
  Min2(100, Cardinality({ i \in 1..Len(routes) :
                            routes[i].target_node_id
                              \in {link.src_id, link.dst_id} }))

UpdateCongestion(ls, routes) ==
  [ k \in 1..Len(ls) |->
      [ls[k] EXCEPT !.congestion_level = Congestion(routes, ls[k])] ]

\* ---------------------------------------- routing environment and agent

RECURSIVE SumCong(_, _)
SumCong(ls, i) ==
  IF i > Len(ls) THEN 0 ELSE ls[i].congestion_level + SumCong(ls, i + 1)

MaxCong(ls) ==
  IF Len(ls) = 0 THEN 0
  ELSE CHOOSE c \in { ls[i].congestion_level : i \in 1..Len(ls) } :
         \A i \in 1..Len(ls) : ls[i].congestion_level <= c

\* RoutingEnvV1._encode_state, every feature in hundredths; the three rtt
\* features depend on the link table only and are left out
encode_state(ls, job) ==
  << job.size_gb * 100,
     job.flops * 100,
     job.latency_slo_ms \div 10,
     IF Len(ls) = 0 THEN 0 ELSE SumCong(ls, 1) \div Len(ls),
     MaxCong(ls) >>

ZeroState == << 0, 0, 0, 0, 0 >>

\* np.random.randint(num_actions), sampled at both ends of the range
RandInt(n) == {0, n - 1}

Dot(a, b) ==
  a[1] * b[1] + a[2] * b[2] + a[3] * b[3] + a[4] * b[4] + a[5] * b[5]

\* RoutingBanditAgent.select_action: the indices it can return
select_action(state, wv, num_actions) ==
  IF num_actions = 0 THEN {0}
  ELSE RandInt(num_actions)
       \cup (IF Dot(state, wv) >= 0 THEN {0} ELSE RandInt(num_actions))

\* RoutingEnvV1.step, lines 87-90: the reward of a route_job result
StepReward(result) ==
  LET latency_ms == IF result.kind = "metrics" THEN result.latency_ms ELSE 0
      cost_usd == IF result.kind = "metrics" THEN result.cost_usd ELSE 0
      slo_violated == IF result.kind = "metrics" THEN result.slo_violated
                      ELSE FALSE
      reward == 0 - 10000 * latency_ms - cost_usd
  IN  IF slo_violated THEN reward - SloPenalty ELSE reward

\* RoutingBanditAgent.update: w += lr * reward * state, the reward taken
\* in hundredths (lr is a constant factor of the unit of w)
RewardCenti(reward) == 0 - ((0 - reward) \div 100000)

update(wv, state, reward) ==
  [ i \in 1..5 |-> wv[i] + RewardCenti(reward) * state[i] ]

\* ------------------------------------------------------------------- Init
EmptyDict == [ x \in {} |-> 0 ]

\* np.zeros(4)
ZeroState4 == << 0, 0, 0, 0 >>

\* FailureAgent._last_state = None
NoLastState == << >>

\* sim_state = None, _state_cache = None
NoSimState == [kind |-> NoneValue]

\* all_satellites_global = []
EmptyList == [n |-> 0, tick |-> -1]

\* the requests the server handles at a time
Handlers == {1, 2}

\* a handler slot with no request in it
IdleHandler == [pc |-> "idle"]

\* the threads of the pool that run the sync handlers of sim_routes.py
PoolThreads == {1, 2}

\* a thread that runs no step_routing call
IdleWorker ==
  [pc |-> "idle",
   meta |-> [state |-> ZeroState, candidate_nodes |-> << >>,
             has_job |-> FALSE],
   node |-> [id |-> ""],
   kept |-> << >>]

\* a path at which there is no file
NoFile == [exists |-> FALSE, content |-> << >>]

Init ==
  /\ satellites = 0
  /\ time_s = 0
  /\ pending_jobs = << >>
  /\ active_routes = << >>
  /\ nodes = << >>
  /\ links = << >>
  /\ job_counter = 0
  /\ regional_load_multipliers = EmptyDict
  /\ fiber_cuts = << >>
  /\ disabled_shells = EmptyDict
  /\ w = ZeroState
  /\ last_job = -1
  /\ last_action_node = ""
  /\ call = [op |-> "init"]
  /\ history = << >>
  /\ failure_w = [ a \in {0, 1} |-> ZeroState4 ]
  /\ last_state = NoLastState
  /\ main_satellites = 0
  /\ startup_status = "not_run"
  /\ tasks = {}
  /\ tick_task = [pc |-> "not_created", error_logged |-> FALSE]
  /\ sim_state = NoSimState
  /\ all_satellites_global = EmptyList
  /\ control = [tick |-> 0,
                scenario |-> [mode |-> "normal", orbitOffloadPercent |-> 30]]
  /\ state_cache = NoSimState
  /\ cache_tick = -1
  /\ sim_lock = 0
  /\ req = [ h \in Handlers |-> IdleHandler ]
  /\ response = [endpoint |-> "none"]
  /\ cache_file = NoFile
  /\ cache_time_file = NoFile
  /\ service_satellites = << >>
  /\ tle_data = << >>
  /\ workers = [ t \in PoolThreads |-> IdleWorker ]

\* initialize building the node and link sets on its first call only
initialize_once(n) ==
  /\ satellites' = n
  /\ nodes' = IF nodes = << >> THEN BuildNodes(n) ELSE nodes
  /\ links' = IF nodes = << >> THEN BuildLinks(n) ELSE links
  /\ call' = [op |-> "initialize", satellites |-> n]
  /\ UNCHANGED << time_s, pending_jobs, active_routes, job_counter,
                  scenarioVars, agentVars, failureVars, poolVars, starlinkVars,
                  orchVars >>

\* World.initialize
initialize(n) ==
  /\ satellites' = n
  /\ nodes' = BuildNodes(n)
  /\ links' = BuildLinks(n)
  /\ call' = [op |-> "initialize", satellites |-> n]
  /\ UNCHANGED << time_s, pending_jobs, active_routes, job_counter,
                  scenarioVars, agentVars, failureVars, poolVars, starlinkVars,
                  orchVars >>

\* World.advance_time (dt_seconds = 1.0), generate_jobs included
advance_time(hour, batch, cap) ==
  /\ Len(batch) = Min2(NumJobs(hour, regional_load_multipliers), MaxBatch)
  /\ job_counter + Len(batch) <= cap
  /\ time_s' = time_s + 1
  /\ pending_jobs' = pending_jobs \o
       [ k \in 1..Len(batch) |->
           NewJob(job_counter + k - 1, JobClasses[batch[k][1]], batch[k][2]) ]
  /\ job_counter' = job_counter + Len(batch)
  /\ links' = UpdateCongestion(links, active_routes)
  /\ call' = [op |-> "advance_time"]
  /\ UNCHANGED << satellites, active_routes, nodes, scenarioVars, agentVars,
                  failureVars, poolVars, starlinkVars, orchVars >>

\* a direct World.route_job call
RouteJobCall(job_id, node_id) ==
  LET r == route_job(pending_jobs, active_routes, nodes, fiber_cuts,
                     job_id, node_id)
  IN  /\ pending_jobs' = r.pending_jobs
      /\ active_routes' = r.active_routes
      /\ call' = [op |-> "route_job", job_id |-> job_id, node_id |-> node_id,
                  result |-> r.result]
      /\ UNCHANGED << satellites, time_s, nodes, links, job_counter,
                      scenarioVars, agentVars, failureVars, poolVars,
                      starlinkVars, orchVars >>

\* World.set_regional_load
SetRegionalLoad(mults, region, multiplier) ==
  [ r \in (DOMAIN mults) \cup {region} |->
      IF r = region THEN multiplier ELSE mults[r] ]

\* World.cut_fiber_between
CutFiberBetween(cuts, region_a, region_b) ==
  Append(cuts, << region_a, region_b >>)

\* World.disable_leo_shell
DisableLeoShell(ds, shell_id, region) ==
  [ s \in (DOMAIN ds) \cup {shell_id} |->
      IF s = shell_id THEN region ELSE ds[s] ]

set_regional_load(region, multiplier) ==
  /\ regional_load_multipliers' =
       SetRegionalLoad(regional_load_multipliers, region, multiplier)
  /\ call' = [op |-> "set_regional_load"]
  /\ UNCHANGED << satellites, time_s, pending_jobs, active_routes, nodes,
                  links, job_counter, fiber_cuts, disabled_shells, agentVars,
                  failureVars, poolVars, starlinkVars, orchVars >>

cut_fiber_between(region_a, region_b) ==
  /\ Len(fiber_cuts) < MaxCuts
  /\ fiber_cuts' = CutFiberBetween(fiber_cuts, region_a, region_b)
  /\ call' = [op |-> "cut_fiber_between"]
  /\ UNCHANGED << satellites, time_s, pending_jobs, active_routes, nodes,
                  links, job_counter, regional_load_multipliers,
                  disabled_shells, agentVars, failureVars, poolVars,
                  starlinkVars, orchVars >>

disable_leo_shell(shell_id, region) ==
  /\ disabled_shells' = DisableLeoShell(disabled_shells, shell_id, region)
  /\ call' = [op |-> "disable_leo_shell"]
  /\ UNCHANGED << satellites, time_s, pending_jobs, active_routes, nodes,
                  links, job_counter, regional_load_multipliers, fiber_cuts,
                  agentVars, failureVars, poolVars, starlinkVars, orchVars >>

\* ------------------------------------------------------ scenario generator

\* PRESET_SCENARIOS
PRESET_SCENARIOS ==
  << [id |-> "asia_sports_final", load_region |-> "east_asia",
      load_multiplier |-> 30, outage_region |-> NoneValue,
      outage_satellite_shell |-> NoneValue,
      fiber_cut_region_pair |-> << >>],
     [id |-> "transatlantic_fiber_cut", load_region |-> NoneValue,
      load_multiplier |-> 10, outage_region |-> NoneValue,
      outage_satellite_shell |-> NoneValue,
      fiber_cut_region_pair |-> << "north_america", "europe" >>],
     [id |-> "leo_shell_outage", load_region |-> NoneValue,
      load_multiplier |-> 10, outage_region |-> "pacific",
      outage_satellite_shell |-> "shell_1",
      fiber_cut_region_pair |-> << >>] >>

\* next((s for s in PRESET_SCENARIOS if s.id == scenario_id), None)
NoScenario == [id |-> NoneValue]

\* an unknown id falling back to the first preset, as scenario_from_prompt does
FindScenarioFallback(scenario_id) ==
  IF \E i \in 1..Len(PRESET_SCENARIOS) : PRESET_SCENARIOS[i].id = scenario_id
  THEN PRESET_SCENARIOS[CHOOSE i \in 1..Len(PRESET_SCENARIOS) :
                          PRESET_SCENARIOS[i].id = scenario_id]
  ELSE PRESET_SCENARIOS[1]

FindScenario(scenario_id) ==
  IF \E i \in 1..Len(PRESET_SCENARIOS) : PRESET_SCENARIOS[i].id = scenario_id
  THEN PRESET_SCENARIOS[CHOOSE i \in 1..Len(PRESET_SCENARIOS) :
                          PRESET_SCENARIOS[i].id = scenario_id]
  ELSE NoScenario

\* a scenario without a load region clearing the multipliers
ApplyLoadReset(mults, sc) ==
  IF sc.load_region # NoneValue
  THEN SetRegionalLoad(mults, sc.load_region, sc.load_multiplier)
  ELSE EmptyDict

\* apply_scenario, lines 65-71
ApplyLoad(mults, sc) ==
  IF sc.load_region # NoneValue
  THEN SetRegionalLoad(mults, sc.load_region, sc.load_multiplier)
  ELSE mults

ApplyCut(cuts, sc) ==
  IF sc.fiber_cut_region_pair # << >>
  THEN CutFiberBetween(cuts, sc.fiber_cut_region_pair[1],
                       sc.fiber_cut_region_pair[2])
  ELSE cuts

ApplyOutage(ds, sc) ==
  IF sc.outage_satellite_shell # NoneValue
  THEN DisableLeoShell(ds, sc.outage_satellite_shell, sc.outage_region)
  ELSE ds

\* apply_scenario (POST /scenario/apply/{scenario_id})
apply_scenario(scenario_id) ==
  /\ IF FindScenario(scenario_id) = NoScenario
     THEN UNCHANGED scenarioVars
     ELSE LET sc == FindScenario(scenario_id)
          IN  /\ Len(ApplyCut(fiber_cuts, sc)) <= MaxCuts
              /\ regional_load_multipliers' =
                   ApplyLoad(regional_load_multipliers, sc)
              /\ fiber_cuts' = ApplyCut(fiber_cuts, sc)
              /\ disabled_shells' = ApplyOutage(disabled_shells, sc)
  /\ call' = [op |-> "apply_scenario", scenario_id |-> scenario_id]
  /\ UNCHANGED << satellites, time_s, pending_jobs, active_routes, nodes,
                  links, job_counter, agentVars, failureVars, poolVars,
                  starlinkVars, orchVars >>

\* ------------------------------------------------------ routing controller

\* reset taking the newest pending job in place of the head
reset_newest(pend, ns, ds, ls) ==
  IF pend = << >>
  THEN [state |-> ZeroState, candidate_nodes |-> << >>, has_job |-> FALSE]
  ELSE [state |-> encode_state(ls, pend[Len(pend)]),
        candidate_nodes |->
          get_candidate_nodes_for_job(pend, ns, ds, pend[Len(pend)].id),
        has_job |-> TRUE,
        job |-> pend[Len(pend)]]

\* RoutingEnvV1.reset: the state vector and the meta dict
reset(pend, ns, ds, ls) ==
  IF pend = << >>
  THEN [state |-> ZeroState, candidate_nodes |-> << >>, has_job |-> FALSE]
  ELSE [state |-> encode_state(ls, Head(pend)),
        candidate_nodes |->
          get_candidate_nodes_for_job(pend, ns, ds, Head(pend).id),
        has_job |-> TRUE,
        job |-> Head(pend)]

\* the early return with the agent's weights cleared
DecideNoneClearsWeights(meta) ==
  /\ last_job' = IF meta.has_job THEN meta.job.id ELSE last_job
  /\ w' = ZeroState
  /\ call' = [op |-> "decide_for_next_job", outcome |-> "none"]
  /\ UNCHANGED << worldVars, last_action_node, failureVars, poolVars,
                  starlinkVars, orchVars >>

\* decide_for_next_job, lines 50-51: return None.  reset has recorded
\* last_job when there was a pending job
DecideNone(meta) ==
  /\ last_job' = IF meta.has_job THEN meta.job.id ELSE last_job
  /\ call' = [op |-> "decide_for_next_job", outcome |-> "none"]
  /\ UNCHANGED << worldVars, w, last_action_node, failureVars, poolVars,
                  starlinkVars, orchVars >>

\* decide_for_next_job, lines 53-66, RoutingEnvV1.step included.  Line 58
\* reads self.world, an attribute RoutingController.__init__ never sets:
\* the call raises AttributeError after the job was routed and the agent
\* updated, so lines 59-66 (the relabelling and the return) never run.
DecideStep(meta, action_idx) ==
  LET job == meta.job
      candidate_nodes == meta.candidate_nodes
      chosen_node == candidate_nodes[(action_idx % Len(candidate_nodes)) + 1]
      r == route_job(pending_jobs, active_routes, nodes, fiber_cuts,
                     job.id, chosen_node.id)
      reward == StepReward(r.result)
  IN  /\ action_idx \in select_action(meta.state, w, Len(candidate_nodes))
      /\ last_job' = job.id
      /\ pending_jobs' = r.pending_jobs
      /\ active_routes' = r.active_routes
      /\ IF r.result.kind = "raise"
         THEN \* an exception of route_job leaves step and the controller
              /\ UNCHANGED << w, last_action_node >>
              /\ call' = [op |-> "decide_for_next_job", outcome |-> "raise",
                          exc |-> r.result.exc]
         ELSE /\ last_action_node' = chosen_node.id
              /\ w' = update(w, meta.state, reward)
              /\ call' = [op |-> "decide_for_next_job", outcome |-> "raise",
                          exc |-> "AttributeError",
                          result |-> r.result, reward |-> reward]
      /\ UNCHANGED << satellites, time_s, nodes, links, job_counter,
                      scenarioVars, failureVars, poolVars, starlinkVars, orchVars >>

\* RoutingController.decide_for_next_job (POST /sim/step_routing)
decide_for_next_job(action_idx) ==
  LET meta == reset(pending_jobs, nodes, disabled_shells, links)
  IN  IF meta.candidate_nodes = << >> \/ ~meta.has_job
      THEN action_idx = 0 /\ DecideNone(meta)
      ELSE DecideStep(meta, action_idx)

\* ------------------------------------------ step_routing on pool threads

\* POST /sim/step_routing is a sync handler: each call runs on a thread of
\* the pool, beside the other calls and beside the event loop, and World
\* takes no lock.  A call is split where another thread can get in:
\* after reset, after route_job has found the job (line 203), between the
\* read and the store of line 212, and before the append of line 237.

\* RoutingEnvV1.reset and the choice of the node (decide_for_next_job,
\* lines 47-53, step, line 73)
step_routing_reset(t, action_idx) ==
  LET meta == reset(pending_jobs, nodes, disabled_shells, links)
  IN  /\ workers[t].pc = "idle"
      /\ IF meta.candidate_nodes = << >> \/ ~meta.has_job
         THEN /\ action_idx = 0
              /\ last_job' = IF meta.has_job THEN meta.job.id ELSE last_job
              /\ call' = [op |-> "step_routing", t |-> t,
                          outcome |-> "none"]
              /\ UNCHANGED workers
         ELSE /\ action_idx
                   \in select_action(meta.state, w,
                                     Len(meta.candidate_nodes))
              /\ last_job' = meta.job.id
              /\ workers' =
                   [workers EXCEPT ![t] =
                      [pc |-> "route_job", meta |-> meta,
                       node |-> meta.candidate_nodes[
                         (action_idx % Len(meta.candidate_nodes)) + 1],
                       kept |-> << >>]]
              /\ call' = [op |-> "step_routing", t |-> t,
                          outcome |-> "reset"]
      /\ UNCHANGED << worldVars, w, last_action_node, failureVars,
                      starlinkVars, orchVars >>

\* route_job, lines 203-209: the job and the node looked up.  An error
\* dict ends route_job; step takes reward 0 from it, the agent's update
\* adds nothing, and line 58 of decide_for_next_job raises
step_routing_find(t) ==
  LET wk == workers[t]
      found == /\ HasJob(pending_jobs, wk.meta.job.id)
               /\ HasNode(nodes, wk.node.id)
  IN  /\ wk.pc = "route_job"
      /\ IF found
         THEN /\ workers' =
                   [workers EXCEPT ![t] =
                      [wk EXCEPT !.pc = "filter",
                                 !.node = GetNode(nodes, wk.node.id)]]
              /\ call' = [op |-> "step_routing", t |-> t,
                          outcome |-> "found"]
              /\ UNCHANGED last_action_node
         ELSE /\ workers' = [workers EXCEPT ![t] = IdleWorker]
              /\ last_action_node' = wk.node.id
              /\ call' = [op |-> "step_routing", t |-> t,
                          outcome |-> "raise", exc |-> "AttributeError",
                          result |->
                            [kind |-> "error",
                             error |-> IF HasJob(pending_jobs,
                                                 wk.meta.job.id)
                                       THEN "node_not_found"
                                       ELSE "job_not_found"]]
      /\ UNCHANGED << worldVars, w, last_job, failureVars, starlinkVars,
                      orchVars >>

\* route_job, line 212, the right-hand side: the list without the job
step_routing_filter(t) ==
  LET wk == workers[t]
  IN  /\ wk.pc = "filter"
      /\ workers' =
           [workers EXCEPT ![t] =
              [wk EXCEPT !.pc = "store",
                         !.kept = RemoveJob(pending_jobs, wk.meta.job.id)]]
      /\ call' = [op |-> "step_routing", t |-> t, outcome |-> "filtered"]
      /\ UNCHANGED << worldVars, agentVars, failureVars, starlinkVars,
                      orchVars >>

\* route_job, line 212, the assignment to self.pending_jobs
step_routing_store(t) ==
  LET wk == workers[t]
  IN  /\ wk.pc = "store"
      /\ pending_jobs' = wk.kept
      /\ workers' = [workers EXCEPT ![t] = [wk EXCEPT !.pc = "append",
                                                      !.kept = << >>]]
      /\ call' = [op |-> "step_routing", t |-> t, outcome |-> "stored"]
      /\ UNCHANGED << satellites, time_s, active_routes, nodes, links,
                      job_counter, scenarioVars, agentVars, failureVars,
                      starlinkVars, orchVars >>

\* route_job, lines 214-243, the rest of step and of decide_for_next_job:
\* the decision appended, the reward taken, the weights updated, and the
\* AttributeError of line 58
step_routing_append(t) ==
  LET wk == workers[t]
      job == wk.meta.job
      latency_ms == RouteLatency(wk.node, fiber_cuts)
      result == [kind |-> "metrics", latency_ms |-> latency_ms,
                 cost_usd |-> CostUsd(job, wk.node),
                 slo_violated |-> SloViolated(latency_ms, job)]
      reward == StepReward(result)
  IN  /\ wk.pc = "append"
      /\ active_routes' =
           Append(active_routes,
                  [job_id |-> job.id, target_node_id |-> wk.node.id,
                   source |-> "rule_based"])
      /\ last_action_node' = wk.node.id
      /\ w' = update(w, wk.meta.state, reward)
      /\ workers' = [workers EXCEPT ![t] = IdleWorker]
      /\ call' = [op |-> "step_routing", t |-> t, outcome |-> "raise",
                  exc |-> "AttributeError", result |-> result]
      /\ UNCHANGED << satellites, time_s, pending_jobs, nodes, links,
                      job_counter, scenarioVars, last_job, failureVars,
                      starlinkVars, orchVars >>

\* ------------------------------------------------------- failure response

\* the first half of the list kept whatever its length
TriggerGlobalRerouteAlways(routes) == SubSeq(routes, 1, Len(routes) \div 2)

\* World.trigger_global_reroute
TriggerGlobalReroute(routes) ==
  IF Len(routes) > RerouteThreshold
  THEN SubSeq(routes, 1, Len(routes) \div 2)
  ELSE routes

trigger_global_reroute ==
  /\ active_routes' = TriggerGlobalReroute(active_routes)
  /\ call' = [op |-> "trigger_global_reroute", n |-> Len(active_routes)]
  /\ UNCHANGED << satellites, time_s, pending_jobs, nodes, links, job_counter,
                  scenarioVars, agentVars, failureVars, poolVars, starlinkVars,
                  orchVars >>

\* get_performance_metrics, lines 315-324: total latency and violations of
\* the routes from the i-th on
RECURSIVE MetricsLoop(_, _, _, _)
MetricsLoop(routes, pend, ns, i) ==
  IF i > Len(routes) THEN << 0, 0 >>
  ELSE LET route == routes[i]
           rest == MetricsLoop(routes, pend, ns, i + 1)
       IN  IF HasJob(pend, route.job_id) /\ HasNode(ns, route.target_node_id)
           THEN LET job == FindJob(pend, route.job_id)
                    node == GetNode(ns, route.target_node_id)
                    latency == IF node.node_type = "ground"
                               THEN GroundLatency ELSE LeoLatency
                IN  << rest[1] + latency,
                       rest[2] + (IF latency > job.latency_slo_ms
                                  THEN 1 ELSE 0) >>
           ELSE rest

\* World.get_performance_metrics: avg_latency_ms in hundredths of a ms,
\* slo_violation_rate in 1e-4
get_performance_metrics(routes, pend, ns) ==
  IF routes = << >>
  THEN [avg_latency_ms |-> 0, slo_violation_rate |-> 0]
  ELSE LET t == MetricsLoop(routes, pend, ns, 1)
       IN  [avg_latency_ms |-> (t[1] * 100) \div Len(routes),
            slo_violation_rate |-> (t[2] * 10000) \div Len(routes)]

\* one entry of FailureEnvV1.history: the metrics dict, and the world time
\* it was computed at, which tells the entries apart
Sample(routes, pend, ns, t) ==
  [avg_latency_ms |-> get_performance_metrics(routes, pend, ns).avg_latency_ms,
   slo_violation_rate |->
     get_performance_metrics(routes, pend, ns).slo_violation_rate,
   sampled_at |-> t]

RECURSIVE SumField(_, _, _)
SumField(hist, field, i) ==
  IF i > Len(hist) THEN 0 ELSE hist[i][field] + SumField(hist, field, i + 1)

\* FailureEnvV1._encode_state: latencies / 1000 in 1e-5, violations in 1e-4
EncodeFailureState(hist) ==
  IF hist = << >> THEN ZeroState4
  ELSE << hist[Len(hist)].avg_latency_ms,
          SumField(hist, "avg_latency_ms", 1) \div Len(hist),
          hist[Len(hist)].slo_violation_rate,
          SumField(hist, "slo_violation_rate", 1) \div Len(hist) >>

\* the newest sample dropped when the window is full
AppendSampleDropNewest(hist, metrics) ==
  IF Len(Append(hist, metrics)) > window_size THEN hist
  ELSE Append(hist, metrics)

\* FailureEnvV1.step, lines 56-58
AppendSample(hist, metrics) ==
  IF Len(Append(hist, metrics)) > window_size
  THEN Tail(Append(hist, metrics))
  ELSE Append(hist, metrics)

\* FailureEnvV1.step, line 63, in 1e-5
FailureReward(metrics) ==
  0 - metrics.avg_latency_ms - 20 * metrics.slo_violation_rate

\* FailureAgent._q_values
QValues(wv, state) ==
  [ a \in {0, 1} |-> wv[a][1] * state[1] + wv[a][2] * state[2]
                     + wv[a][3] * state[3] + wv[a][4] * state[4] ]

\* FailureAgent.select_action: the actions it can return
FailureSelectAction(wv, state) ==
  RandInt(2) \cup { IF QValues(wv, state)[1] > QValues(wv, state)[0]
                    THEN 1 ELSE 0 }

\* the environment reset on every call
NeedsResetAlways(ls) == TRUE

\* FailureAgent.step, line 31
NeedsReset(ls) == ls = NoLastState

\* FailureAgent.step (POST /sim/step_failure), FailureEnvV1.reset and
\* FailureEnvV1.step included.  The weights are in units of lr.
failure_agent_step(action, hour, batch, cap) ==
  LET did_reset == NeedsReset(last_state)
      hist0 == IF did_reset
               THEN << Sample(active_routes, pending_jobs, nodes, time_s) >>
               ELSE history
      state == IF did_reset THEN EncodeFailureState(hist0) ELSE last_state
      routes1 == IF action = 1 THEN TriggerGlobalReroute(active_routes)
                 ELSE active_routes
      pend1 == pending_jobs \o
                 [ k \in 1..Len(batch) |->
                     NewJob(job_counter + k - 1, JobClasses[batch[k][1]],
                            batch[k][2]) ]
      metrics == Sample(routes1, pend1, nodes, time_s + 1)
      hist1 == AppendSample(hist0, metrics)
      next_state == EncodeFailureState(hist1)
      reward == FailureReward(metrics)
      q_vals == QValues(failure_w, state)
      q_next == QValues(failure_w, next_state)
      td_error == reward + (9 * Max2(q_next[0], q_next[1])) \div 10
                  - q_vals[action]
  IN  /\ action \in FailureSelectAction(failure_w, state)
      /\ Len(batch) = Min2(NumJobs(hour, regional_load_multipliers), MaxBatch)
      /\ job_counter + Len(batch) <= cap
      /\ active_routes' = routes1
      /\ time_s' = time_s + 1
      /\ pending_jobs' = pend1
      /\ job_counter' = job_counter + Len(batch)
      /\ links' = UpdateCongestion(links, routes1)
      /\ history' = hist1
      /\ failure_w' = [failure_w EXCEPT ![action] =
                         [ i \in 1..4 |-> failure_w[action][i]
                                          + td_error * state[i] ]]
      /\ last_state' = next_state
      /\ call' = [op |-> "failure_agent_step", action |-> action,
                  did_reset |-> did_reset, state |-> state,
                  next_state |-> next_state, reward |-> reward,
                  metrics |-> metrics,
                  evicted |-> (Len(hist0) = window_size)]
      /\ UNCHANGED << satellites, nodes, scenarioVars, agentVars, orchVars,
                      starlinkVars, poolVars >>

\* ------------------------------------------------- scenario from a prompt

\* str.lower on one character
LowerChar(c) ==
  CASE c = "A" -> "a" []
       c = "B" -> "b" []
       c = "C" -> "c" []
       c = "D" -> "d" []
       c = "E" -> "e" []
       c = "F" -> "f" []
       c = "G" -> "g" []
       c = "H" -> "h" []
       c = "I" -> "i" []
       c = "J" -> "j" []
       c = "K" -> "k" []
       c = "L" -> "l" []
       c = "M" -> "m" []
       c = "N" -> "n" []
       c = "O" -> "o" []
       c = "P" -> "p" []
       c = "Q" -> "q" []
       c = "R" -> "r" []
       c = "S" -> "s" []
       c = "T" -> "t" []
       c = "U" -> "u" []
       c = "V" -> "v" []
       c = "W" -> "w" []
       c = "X" -> "x" []
       c = "Y" -> "y" []
       c = "Z" -> "z" []
       OTHER -> c

\* the prompt taken as typed
lower_identity(prompt) == prompt

\* prompt.lower(); a string is the sequence of its characters
lower(prompt) == [ i \in 1..Len(prompt) |-> LowerChar(prompt[i]) ]

\* word in p
Contains(p, word) ==
  \E i \in 1..(Len(p) - Len(word) + 1) : SubSeq(p, i, i + Len(word) - 1) = word

\* the keywords of scenario_from_prompt
KwAsia == << "a", "s", "i", "a" >>
KwSports == << "s", "p", "o", "r", "t", "s" >>
KwFinal == << "f", "i", "n", "a", "l" >>
KwFiber == << "f", "i", "b", "e", "r" >>
KwTransatlantic == << "t", "r", "a", "n", "s", "a", "t", "l", "a", "n", "t", "i", "c" >>
KwLeo == << "l", "e", "o" >>
KwOutage == << "o", "u", "t", "a", "g", "e" >>
KwShell == << "s", "h", "e", "l", "l" >>

\* scenario_from_prompt
scenario_from_prompt(prompt) ==
  LET p == lower(prompt)
  IN  IF Contains(p, KwAsia) \/ Contains(p, KwSports) \/ Contains(p, KwFinal)
      THEN PRESET_SCENARIOS[1]
      ELSE IF Contains(p, KwFiber) \/ Contains(p, KwTransatlantic)
      THEN PRESET_SCENARIOS[2]
      ELSE IF Contains(p, KwLeo) \/ Contains(p, KwOutage) \/ Contains(p, KwShell)
      THEN PRESET_SCENARIOS[3]
      ELSE PRESET_SCENARIOS[1]

\* prompts posted to /scenario/from_prompt: each keyword once, two prompts
\* with keywords of two groups, one with none, and the empty prompt
Prompts ==
  { << "A", "S", "I", "A" >>,
    << "S", "p", "o", "r", "t", "s" >>,
    << "f", "i", "n", "a", "l" >>,
    << "F", "I", "B", "E", "R" >>,
    << "T", "r", "a", "n", "s", "a", "t", "l", "a", "n", "t", "i", "c" >>,
    << "L", "e", "o" >>,
    << "o", "u", "t", "a", "g", "e" >>,
    << "S", "h", "e", "l", "l" >>,
    << "l", "e", "o", " ", "f", "i", "n", "a", "l" >>,
    << "s", "h", "e", "l", "l", " ", "f", "i", "b", "e", "r" >>,
    << "h", "i" >>,
    << >> }

\* scenario_from_text (POST /scenario/from_prompt)
scenario_from_text(prompt) ==
  LET chosen == scenario_from_prompt(prompt)
      sc == FindScenario(chosen.id)
  IN  /\ Len(ApplyCut(fiber_cuts, sc)) <= MaxCuts
      /\ regional_load_multipliers' = ApplyLoad(regional_load_multipliers, sc)
      /\ fiber_cuts' = ApplyCut(fiber_cuts, sc)
      /\ disabled_shells' = ApplyOutage(disabled_shells, sc)
      /\ call' = [op |-> "scenario_from_text", prompt |-> prompt,
                  outcome |-> "return", scenario_id |-> chosen.id]
      /\ UNCHANGED << satellites, time_s, pending_jobs, active_routes, nodes,
                      links, job_counter, agentVars, failureVars, poolVars,
                      starlinkVars, orchVars >>

\* get_preset_scenarios
get_preset_scenarios == PRESET_SCENARIOS

\* list_presets (GET /scenario/presets)
list_presets ==
  /\ call' = [op |-> "list_presets", result |-> get_preset_scenarios]
  /\ UNCHANGED << worldVars, agentVars, failureVars, poolVars, starlinkVars,
                  orchVars >>


\* ------------------------------------------------------------ orchestrator
\* Asyncio runs one coroutine at a time and changes coroutine at an await
\* only: every action below is the code between two awaits.  The parts of
\* a SimState are told apart by the tick that computed them and by the
\* scenario block it read.

\* fetch_tles(): it raises, or returns that many satellites
FetchCounts == {0, MaxSats, GlobalThreshold + 1}
FetchOutcomes ==
  {[kind |-> "raise", n |-> 0]}
    \cup { [kind |-> "return", n |-> k] : k \in FetchCounts }

\* the placeholder satellites the fallback loop manages to create
PlaceholderCounts == {0, DummySatellites}

\* the tasks startup creates
StartupTasks ==
  {"update_simulation", "update_energy_prices_periodically",
   "advance_world_time"}

\* startup, lines 1103-1146: the world initialized, the cache cleared, the
\* three tasks created
StartupProceeds(n, first, retry) ==
  /\ main_satellites' = n
  /\ satellites' = n
  /\ nodes' = BuildNodes(n)
  /\ links' = BuildLinks(n)
  /\ state_cache' = NoSimState
  /\ cache_tick' = -1
  /\ tasks' = StartupTasks
  /\ tick_task' = [pc |-> "ready", error_logged |-> FALSE]
  /\ startup_status' = "done"
  /\ call' = [op |-> "startup", outcome |-> "done", first |-> first,
              retry |-> retry]
  /\ UNCHANGED << time_s, pending_jobs, active_routes, job_counter,
                  scenarioVars, agentVars, failureVars, poolVars, starlinkVars,
                  sim_state,
                  all_satellites_global, control, sim_lock, req, response >>

\* startup, line 1099: error_count is a local that only the placeholder
\* branch assigns; after a retry that returned, the print raises
\* UnboundLocalError and startup ends there
StartupRaises(n, first, retry) ==
  /\ main_satellites' = n
  /\ startup_status' = "raised"
  /\ call' = [op |-> "startup", outcome |-> "raise",
              exc |-> "UnboundLocalError", first |-> first, retry |-> retry]
  /\ UNCHANGED << worldVars, agentVars, failureVars, poolVars, starlinkVars,
                  tasks, tick_task,
                  sim_state,
                  all_satellites_global, control, state_cache, cache_tick,
                  sim_lock, req, response >>

\* startup (the "startup" event of the application)
startup(first, retry, dummies) ==
  /\ startup_status = "not_run"
  /\ IF first.kind = "return" /\ first.n > 0
     THEN StartupProceeds(first.n, first, retry)
     ELSE IF retry.kind = "return"
     THEN StartupRaises(retry.n, first, retry)
     ELSE StartupProceeds(dummies, first, retry)

\* the lock taken whoever holds it
CanAcquireAlways(lock) == TRUE

\* async with sim_lock: the lock is free (0) or held by a handler
CanAcquire(lock) == lock = 0

\* the tick's except clause dropping the state
AfterFailedTickCleared(state) == NoSimState

\* update_simulation, lines 1042-1045: the except clause of the tick
AfterFailedTick(state) == state

\* what one tick computes: the part of a SimState, stamped
Computed(ctl) == [tick |-> ctl.tick, scenario |-> ctl.scenario]

\* WORKLOAD_PROFILE["hourly_arrival_rates"] of main.py, in tenths
MainHourlyArrivalRates ==
  << 8, 6, 5, 4, 5, 7, 10, 12, 14, 15, 14, 13,
     12, 11, 10, 11, 12, 13, 14, 13, 11, 9, 8, 7 >>

\* generate_jobs: how many jobs it returns, int(rate * 100)
generate_jobs(hour) == MainHourlyArrivalRates[(hour % 24) + 1] * 10

\* TOPOLOGY["groundSites"] and TOPOLOGY["gateways"] of main.py
MainGroundSites == << "abilene_edge", "nova_hub", "dfw_hub", "phx_hub" >>
MainGateways ==
  << "abilene_gateway", "dfw_gateway", "nova_gateway", "phx_gateway" >>

\* powers are counted in units of 20 W: 0.003 MW / 50 jobs is 3 units a job
\* on a hub satellite, 0.5 MW * 1.3 is 32500 units a job on a ground site
HubUnitsPerJob == 3
SiteUnitsPerJob == 32500

\* update_simulation, lines 696-711: one hub a gateway, holding the one
\* orbital node nearest to it, when there is an orbital node at all
HubCount(propagated) == IF propagated THEN Len(MainGateways) ELSE 0

\* update_simulation, lines 716-718
NumOrbitalJobs(njobs, ctl) ==
  (njobs * ctl.scenario.orbitOffloadPercent) \div 100

\* update_simulation, lines 729-736: total_orbital_power
TotalOrbitalPower(njobs, ctl, propagated) ==
  LET hubsN == HubCount(propagated)
      jobs_running ==
        IF hubsN = 0 THEN 0 ELSE NumOrbitalJobs(njobs, ctl) \div hubsN
  IN  hubsN * (Min2(50, jobs_running) * HubUnitsPerJob)

\* update_simulation, lines 757-781: power_mw of one ground site
SitePower(site, jobs_per_site, mode) ==
  LET power == Min2(300, jobs_per_site) * SiteUnitsPerJob
  IN  IF mode = "fiber_cut" /\ site = "nova_hub" THEN power \div 2 ELSE power

RECURSIVE SumSitePower(_, _, _)
SumSitePower(i, jobs_per_site, mode) ==
  IF i = 0 THEN 0
  ELSE SumSitePower(i - 1, jobs_per_site, mode)
         + SitePower(MainGroundSites[i], jobs_per_site, mode)

\* update_simulation, lines 726 and 753-790: total_ground_power
TotalGroundPower(njobs, ctl) ==
  LET num_ground_jobs == njobs - NumOrbitalJobs(njobs, ctl)
      jobs_per_site == num_ground_jobs \div Len(MainGroundSites)
  IN  SumSitePower(Len(MainGroundSites), jobs_per_site, ctl.scenario.mode)

\* update_simulation, line 839: orbit_share, the quotient kept as a
\* fraction num / den
\* the share taken of the ground power
OrbitShareOfGround(total_orbital_power, total_ground_power) ==
  IF total_orbital_power + total_ground_power > 0
  THEN [num |-> total_ground_power * 100,
        den |-> total_orbital_power + total_ground_power]
  ELSE [num |-> 0, den |-> 1]

OrbitShare(total_orbital_power, total_ground_power) ==
  IF total_orbital_power + total_ground_power > 0
  THEN [num |-> total_orbital_power * 100,
        den |-> total_orbital_power + total_ground_power]
  ELSE [num |-> 0, den |-> 1]

\* update_simulation, lines 965-975: Metrics(...)
TickMetrics(ctl, hour, propagated) ==
  LET njobs == generate_jobs(hour)
      total_orbital_power == TotalOrbitalPower(njobs, ctl, propagated)
      total_ground_power == TotalGroundPower(njobs, ctl)
  IN  [tick |-> ctl.tick, scenario |-> ctl.scenario,
       totalGroundPowerMw |-> total_ground_power,
       totalOrbitalPowerMw |-> total_orbital_power,
       orbitSharePercent |->
         OrbitShare(total_orbital_power, total_ground_power)]

\* random.uniform(0.3, 0.9) and random.uniform(0.0, 0.2) of lines 894-896,
\* in fiftieths like every utilization: a high draw, a low one, and the
\* lower end 0.0 that uniform can return
SunlitDraw == 45
ShadowDraw == 10
Draws == {0, ShadowDraw, SunlitDraw}

\* update_simulation, lines 696-711: for each gateway the orbital node
\* nearest to it.  Every gateway nearest to the first node, or the first
\* gateway nearest to the first node and the others to the last
FirstNearest == [ g \in 1..Len(MainGateways) |-> 1 ]
NearestChoices(n) ==
  { FirstNearest,
    [ g \in 1..Len(MainGateways) |-> IF g = 1 THEN 1 ELSE n ] }

\* update_simulation, lines 721-723 and 728-750: hub_nodes, one hub a
\* gateway; sat is the orbital node in it, utilization is in fiftieths
HubNodes(njobs, ctl, propagated, nearest) ==
  LET hubsN == HubCount(propagated)
      jobs_running ==
        IF hubsN = 0 THEN 0 ELSE NumOrbitalJobs(njobs, ctl) \div hubsN
  IN  [ g \in 1..hubsN |->
          [gateway |-> MainGateways[g], sat |-> nearest[g],
           utilization |-> Min2(50, jobs_running),
           jobsRunning |-> jobs_running] ]

\* update_simulation, lines 872-899: the utilization published for the
\* i-th orbital node.  The hub's utilization is taken when the node is in
\* a hub, and the random draw is made whenever the utilization is then 0.0
SatelliteUtilization(i, hub_nodes, draw, mode) ==
  LET hubs == { g \in 1..Len(hub_nodes) : hub_nodes[g].sat = i }
      utilization ==
        IF hubs = {} THEN 0
        ELSE hub_nodes[CHOOSE g \in hubs : \A k \in hubs : g <= k].utilization
  IN  IF utilization = 0
      THEN ( IF mode = "solar_storm" THEN (draw * 3) \div 5 ELSE draw )
      ELSE utilization

\* update_simulation, lines 869-925: all_satellites, one entry an orbital
\* node
PublishedSatellites(n, ctl, hub_nodes, draw) ==
  [n |-> n, tick |-> ctl.tick, scenario |-> ctl.scenario,
   utilization |->
     [ i \in 1..n |->
         SatelliteUtilization(i, hub_nodes, draw, ctl.scenario.mode) ]]

\* update_simulation, lines 757-758 and 792-800: jobsRunning of the ground
\* sites
PublishedGroundSites(njobs, ctl) ==
  LET num_ground_jobs == njobs - NumOrbitalJobs(njobs, ctl)
      jobs_per_site == num_ground_jobs \div Len(MainGroundSites)
  IN  [tick |-> ctl.tick, scenario |-> ctl.scenario,
       jobsRunning |-> [ i \in 1..Len(MainGroundSites) |-> jobs_per_site ]]

\* update_simulation, lines 950-956: Workload(...)
PublishedWorkload(njobs, ctl) ==
  LET num_orbital_jobs == NumOrbitalJobs(njobs, ctl)
      num_ground_jobs == njobs - num_orbital_jobs
  IN  [tick |-> ctl.tick, scenario |-> ctl.scenario,
       jobsPending |-> Max2(0, njobs - num_orbital_jobs - num_ground_jobs),
       jobsRunningOrbit |-> num_orbital_jobs,
       jobsRunningGround |-> num_ground_jobs]

\* an exception in the tick body ending the task
TasksAfterFailedTickEnded(ts) == ts \ {"update_simulation"}

\* update_simulation, lines 565 and 1042-1045: the except clause is inside
\* the while loop, the task goes on
TasksAfterFailedTick(ts) == ts

\* update_simulation: one iteration of the loop, from the lock taken to the
\* sleep begun.  The body has no await.  It raises before line 926 (failed)
\* or runs to the end; either way the lock is released on leaving the
\* async with block.  propagated: the satellites gave their orbital nodes
\* (none did otherwise); nearest: the node nearest to each gateway; draw:
\* what random.uniform returns.
update_simulation(failed, hour, propagated, nearest, draw) ==
  /\ "update_simulation" \in tasks
  /\ tick_task.pc = "ready"
  /\ CanAcquire(sim_lock)
  /\ failed \/ control.tick < MaxTicks
  /\ propagated => main_satellites > 0
  /\ IF failed
     THEN /\ sim_state' = AfterFailedTick(sim_state)
          /\ tasks' = TasksAfterFailedTick(tasks)
          /\ UNCHANGED << all_satellites_global, control >>
     ELSE \E all_satellites \in
               { PublishedSatellites(
                   IF propagated THEN main_satellites ELSE 0, control,
                   HubNodes(generate_jobs(hour), control, propagated, nearest),
                   draw) } :
          /\ all_satellites_global' = all_satellites
          /\ sim_state' =
               [kind |-> "SimState",
                time |-> Computed(control),
                satellites |-> all_satellites,
                groundSites |->
                  PublishedGroundSites(generate_jobs(hour), control),
                workload |-> PublishedWorkload(generate_jobs(hour), control),
                metrics |-> TickMetrics(control, hour, propagated),
                events |-> Computed(control)]
          /\ control' = [control EXCEPT !.tick = @ + 1]
          /\ UNCHANGED tasks
  /\ tick_task' = [pc |-> "sleep", error_logged |-> failed]
  /\ sim_lock' = 0
  /\ call' = [op |-> "update_simulation", failed |-> failed,
              after_error |-> tick_task.error_logged, responded |-> FALSE,
              hub_nodes |->
                IF failed THEN << >>
                ELSE HubNodes(generate_jobs(hour), control, propagated,
                              nearest)]
  /\ UNCHANGED << satellites, time_s, pending_jobs, active_routes, nodes,
                  links, job_counter, scenarioVars, w, last_job,
                  last_action_node, failureVars, poolVars, starlinkVars,
                  main_satellites,
                  startup_status, state_cache, cache_tick, req, response >>

\* update_simulation, line 1047: await asyncio.sleep(1.0) returns and the
\* loop comes back to the lock
update_simulation_sleep ==
  /\ "update_simulation" \in tasks
  /\ tick_task.pc = "sleep"
  /\ tick_task' = [tick_task EXCEPT !.pc = "ready"]
  /\ call' = [op |-> "update_simulation_sleep", responded |-> FALSE]
  /\ UNCHANGED << worldVars, agentVars, failureVars, poolVars, starlinkVars,
                  main_satellites,
                  startup_status, tasks, sim_state, all_satellites_global,
                  control, state_cache, cache_tick, sim_lock, req, response >>

Abs(x) == IF x < 0 THEN 0 - x ELSE x

\* a cached response served one tick longer
CacheIsRecentPlusOne(cache, ctick, tick) ==
  cache # NoSimState /\ Abs(tick - ctick) <= CacheTicks + 1

\* get_state, lines 1196-1198
CacheIsRecent(cache, ctick, tick) ==
  cache # NoSimState /\ Abs(tick - ctick) <= CacheTicks

\* get_state, lines 1249-1312: the copy of sim_state, its satellites
\* replaced by the global list when that has more than 20.  Line 1265
\* sets _mode on the copy, an attribute that is no field of SimState and
\* reaches neither the cache test nor the response.
FreshState(ss, global) ==
  [ss EXCEPT !.satellites =
     IF global.n > GlobalThreshold THEN global ELSE ss.satellites]

\* state.dict()
Dict(state) ==
  [time |-> state.time, satellites |-> state.satellites,
   groundSites |-> state.groundSites, workload |-> state.workload,
   metrics |-> state.metrics, events |-> state.events]

GetStateEndpoints == {"/state", "/snapshot"}

\* get_state (GET /state, GET /snapshot), lines 1177-1330: up to the
\* 503, to the cached response, or to the await after the cache is written
get_state_enter(h, endpoint) ==
  /\ startup_status = "done"
  /\ req[h].pc = "idle"
  /\ CanAcquire(sim_lock)
  /\ IF sim_state = NoSimState
     THEN /\ response' = [endpoint |-> endpoint, status |-> 503]
          /\ sim_lock' = 0
          /\ call' = [op |-> "get_state", h |-> h, responded |-> TRUE]
          /\ UNCHANGED << state_cache, cache_tick, req >>
     ELSE IF CacheIsRecent(state_cache, cache_tick, control.tick)
     THEN /\ response' = [endpoint |-> endpoint, status |-> 200,
                          body |-> Dict(state_cache),
                          from_cache |-> TRUE,
                          cache_tick |-> cache_tick]
          /\ sim_lock' = 0
          /\ call' = [op |-> "get_state", h |-> h, responded |-> TRUE]
          /\ UNCHANGED << state_cache, cache_tick, req >>
     ELSE /\ state_cache' = FreshState(sim_state, all_satellites_global)
          /\ cache_tick' = control.tick
          /\ sim_lock' = h
          /\ req' = [req EXCEPT ![h] =
                       [pc |-> "serialize", endpoint |-> endpoint,
                        state |-> FreshState(sim_state,
                                             all_satellites_global),
                        cache_tick |-> control.tick]]
          /\ call' = [op |-> "get_state", h |-> h, responded |-> FALSE]
          /\ UNCHANGED response
  /\ UNCHANGED << worldVars, agentVars, failureVars, poolVars, starlinkVars,
                  main_satellites,
                  startup_status, tasks, tick_task, sim_state,
                  all_satellites_global,
                  control >>

\* get_state, lines 1334-1394: the dict of the state, its satellites taken
\* from the global list again when that has more than 20
get_state_serialize(h) ==
  /\ req[h].pc = "serialize"
  /\ req' = [req EXCEPT ![h] =
               [pc |-> "return", endpoint |-> req[h].endpoint,
                return_dict |->
                  [Dict(req[h].state) EXCEPT !.satellites =
                     IF all_satellites_global.n > GlobalThreshold
                     THEN all_satellites_global
                     ELSE req[h].state.satellites],
                cache_tick |-> req[h].cache_tick]]
  /\ call' = [op |-> "get_state", h |-> h, responded |-> FALSE]
  /\ UNCHANGED << worldVars, agentVars, failureVars, poolVars, starlinkVars,
                  main_satellites,
                  startup_status, tasks, tick_task, sim_state,
                  all_satellites_global,
                  control, state_cache, cache_tick, sim_lock, response >>

\* get_state, lines 1396-1397: the response, and the lock released
get_state_return(h) ==
  /\ req[h].pc = "return"
  /\ response' = [endpoint |-> req[h].endpoint, status |-> 200,
                  body |-> req[h].return_dict, from_cache |-> FALSE,
                  cache_tick |-> req[h].cache_tick]
  /\ sim_lock' = 0
  /\ req' = [req EXCEPT ![h] = IdleHandler]
  /\ call' = [op |-> "get_state", h |-> h, responded |-> TRUE]
  /\ UNCHANGED << worldVars, agentVars, failureVars, poolVars, starlinkVars,
                  main_satellites,
                  startup_status, tasks, tick_task, sim_state,
                  all_satellites_global,
                  control, state_cache, cache_tick >>

\* routes/state.py get_state (GET /api/state)
api_get_state(h) ==
  /\ startup_status = "done"
  /\ req[h].pc = "idle"
  /\ CanAcquire(sim_lock)
  /\ response' =
       IF sim_state = NoSimState
       THEN [endpoint |-> "/api/state", status |-> 503]
       ELSE [endpoint |-> "/api/state", status |-> 200,
             body |-> [time |-> sim_state.time,
                       satellites |-> sim_state.satellites,
                       groundSites |-> sim_state.groundSites,
                       workload |-> sim_state.metrics,
                       metrics |-> sim_state.metrics,
                       events |-> sim_state.events],
             from_cache |-> FALSE, cache_tick |-> control.tick]
  /\ sim_lock' = 0
  /\ call' = [op |-> "api_get_state", h |-> h, responded |-> TRUE]
  /\ UNCHANGED << worldVars, agentVars, failureVars, poolVars, starlinkVars,
                  main_satellites,
                  startup_status, tasks, tick_task, sim_state,
                  all_satellites_global,
                  control, state_cache, cache_tick, req >>

\* the bodies posted to /scenario: a mode, or an offload percentage
ScenarioUpdates ==
  { [mode |-> "solar_storm", has_percent |-> FALSE,
     orbitOffloadPercent |-> 0],
    [mode |-> NoneValue, has_percent |-> TRUE, orbitOffloadPercent |-> 150] }

\* the bodies posted to /scenario: every pairing of a mode, or none, with
\* an offload percentage, or none
ControlModes == {NoneValue, "fiber_cut"}
ControlPercents == {-20, 55, 150}
ControlUpdates ==
  { [mode |-> md, has_percent |-> FALSE, orbitOffloadPercent |-> 0] :
      md \in ControlModes }
    \cup { [mode |-> md, has_percent |-> TRUE, orbitOffloadPercent |-> pc] :
             md \in ControlModes, pc \in ControlPercents }

\* a body without a mode putting the mode back to normal
UpdateModeExpires(mode, upd) ==
  IF upd.mode # NoneValue THEN upd.mode ELSE "normal"

\* update_scenario, lines 1404-1405
UpdateMode(mode, upd) ==
  IF upd.mode # NoneValue THEN upd.mode ELSE mode

\* the percentage bounded from above only
ClampPercentAbove(x) == Min2(100, x)

\* update_scenario, line 1408: max(0.0, min(100.0, x))
ClampPercent(x) == Max2(0, Min2(100, x))

\* update_scenario, lines 1407-1408
UpdatePercent(percent, upd) ==
  IF upd.has_percent THEN ClampPercent(upd.orbitOffloadPercent) ELSE percent

\* update_scenario (POST /scenario)
update_scenario(h, upd) ==
  /\ startup_status = "done"
  /\ req[h].pc = "idle"
  /\ CanAcquire(sim_lock)
  /\ control' =
       [control EXCEPT
          !.scenario.mode = UpdateMode(@, upd),
          !.scenario.orbitOffloadPercent = UpdatePercent(@, upd)]
  /\ response' = [endpoint |-> "/scenario", status |-> 200,
                  scenario |-> control'.scenario]
  /\ sim_lock' = 0
  /\ call' = [op |-> "update_scenario", h |-> h, responded |-> TRUE,
              update |-> upd]
  /\ UNCHANGED << worldVars, agentVars, failureVars, poolVars, starlinkVars,
                  main_satellites,
                  startup_status, tasks, tick_task, sim_state,
                  all_satellites_global,
                  state_cache, cache_tick, req >>

\* ------------------------------------------------- Starlink TLE service
\* A text is a sequence of lines and a line a sequence of characters.  A
\* file is there with a content, or is not there.  The calls of
\* fetch_and_cache_tles run one after the other (self._lock), so one call is
\* one step.

\* self.cache_max_age, in seconds
cache_max_age == 2 * 60 * 60

\* _create_dummy_satellites: range(100)
DummyCount == 100

File(content) == [exists |-> TRUE, content |-> content]

Digits == << "0", "1", "2", "3", "4", "5", "6", "7", "8", "9" >>

RECURSIVE StrInt(_)
StrInt(n) ==
  IF n < 10 THEN << Digits[n + 1] >>
  ELSE StrInt(n \div 10) \o << Digits[(n % 10) + 1] >>

\* str(time.time()), the clock read in whole seconds
StrFloat(n) == StrInt(n) \o << ".", "0" >>

DigitValue(c) == CHOOSE d \in 0..9 : Digits[d + 1] = c
IsDigit(c) == \E d \in 1..10 : Digits[d] = c

RECURSIVE LStrip(_)
LStrip(line) ==
  IF line # << >> /\ Head(line) = " " THEN LStrip(Tail(line)) ELSE line

RECURSIVE RStrip(_)
RStrip(line) ==
  IF line # << >> /\ line[Len(line)] = " "
  THEN RStrip(SubSeq(line, 1, Len(line) - 1))
  ELSE line

\* str.strip on one line
StripLine(line) == RStrip(LStrip(line))

\* str.startswith
StartsWith(line, prefix) ==
  /\ Len(line) >= Len(prefix)
  /\ SubSeq(line, 1, Len(prefix)) = prefix

RECURSIVE ParseInt(_, _)
ParseInt(chars, acc) ==
  IF chars = << >> THEN acc
  ELSE ParseInt(Tail(chars), acc * 10 + DigitValue(Head(chars)))

\* where the decimal point of a number is, 0 if it has none
PointAt(chars) ==
  IF \E i \in DOMAIN chars : chars[i] = "."
  THEN CHOOSE i \in DOMAIN chars :
         chars[i] = "." /\ \A j \in 1..(i - 1) : chars[j] # "."
  ELSE 0

\* float(text.strip()): the number read, its whole seconds kept; ok is
\* FALSE where float() raises ValueError
Float(content) ==
  LET chars == StripLine(content)
      point == PointAt(chars)
      whole == IF point = 0 THEN chars ELSE SubSeq(chars, 1, point - 1)
      frac == IF point = 0 THEN << >>
              ELSE SubSeq(chars, point + 1, Len(chars))
      ok == /\ whole \o frac # << >>
            /\ \A i \in DOMAIN whole : IsDigit(whole[i])
            /\ \A i \in DOMAIN frac : IsDigit(frac[i])
  IN  [ok |-> ok, value |-> IF ok THEN ParseInt(whole, 0) ELSE 0]

IsBlank(line) == StripLine(line) = << >>

RECURSIVE DropBlankHead(_)
DropBlankHead(text) ==
  IF text # << >> /\ IsBlank(Head(text)) THEN DropBlankHead(Tail(text))
  ELSE text

RECURSIVE DropBlankTail(_)
DropBlankTail(text) ==
  IF text # << >> /\ IsBlank(text[Len(text)])
  THEN DropBlankTail(SubSeq(text, 1, Len(text) - 1))
  ELSE text

\* str.strip on a text: the blank lines at its two ends go, and the blanks
\* before its first and after its last character
TextStrip(text) ==
  LET t == DropBlankTail(DropBlankHead(text))
  IN  [ i \in 1..Len(t) |->
          IF i = 1 /\ i = Len(t) THEN StripLine(t[i])
          ELSE IF i = 1 THEN LStrip(t[i])
          ELSE IF i = Len(t) THEN RStrip(t[i])
          ELSE t[i] ]

\* text.strip().split("\n"): the empty text gives one empty line
SplitLines(text) ==
  IF TextStrip(text) = << >> THEN << << >> >> ELSE TextStrip(text)

\* EarthSatellite(line1, line2, name, ts) raises on element lines it cannot
\* read: here the lines holding a "?"
EarthSatelliteRaises(line1, line2) ==
  \/ \E i \in DOMAIN line1 : line1[i] = "?"
  \/ \E i \in DOMAIN line2 : line2[i] = "?"

EarthSatellite(line1, line2, name) ==
  [name |-> name, line1 |-> line1, line2 |-> line2]

\* the id counted before the satellite is appended
SatIdBeforeAppend(n) == << "sat_" >> \o StrInt(n - 1)

\* _parse_tles, line 94: f"sat_{len(sats)}", n the length after the append
SatId(n) == << "sat_" >> \o StrInt(n)

\* _parse_tles, lines 84-101: the loop from index i (counted from 0)
RECURSIVE ParseLoop(_, _, _)
ParseLoop(lines, i, acc) ==
  IF i >= Len(lines) - 1 THEN acc
  ELSE
    LET name == StripLine(lines[i + 1])
        line1 == StripLine(lines[i + 2])
        line2 == StripLine(lines[i + 3])
        sats == Append(acc.sats, EarthSatellite(line1, line2, name))
        next ==
          IF /\ i + 2 < Len(lines)
             /\ StartsWith(line1, << "1", " " >>)
             /\ StartsWith(line2, << "2", " " >>)
             /\ ~EarthSatelliteRaises(line1, line2)
          THEN [sats |-> sats,
                tle_data |->
                  Append(acc.tle_data,
                         [id |-> SatId(Len(sats)), name |-> name,
                          tleLine1 |-> line1, tleLine2 |-> line2])]
          ELSE acc
    IN  ParseLoop(lines, i + 3, next)

\* _parse_tles: the satellites it returns and the list it leaves in
\* self.tle_data
parse_tles(text) ==
  ParseLoop(SplitLines(text), 0, [sats |-> << >>, tle_data |-> << >>])

\* the cache one minute too long in use
IsFreshInclusive(age) == age <= cache_max_age

\* fetch_and_cache_tles, line 35
IsFresh(age) == age < cache_max_age

\* fetch_and_cache_tles, lines 31-39: the cache is there, its time reads as
\* a number, and it is young enough
CacheIsFresh(data, stamp, now) ==
  /\ data.exists
  /\ stamp.exists
  /\ Float(stamp.content).ok
  /\ IsFresh(now - Float(stamp.content).value)

Doctype == << "<", "!", "D", "O", "C", "T", "Y", "P", "E" >>

\* fetch_and_cache_tles, line 58
UrlAccepted(r) ==
  /\ r.kind = "response"
  /\ r.status_code = 200
  /\ ~( /\ TextStrip(r.text) # << >>
        /\ StartsWith(TextStrip(r.text)[1], Doctype) )

\* fetch_and_cache_tles, lines 48-67: the URLs from the i-th on; td is
\* self.tle_data so far
RECURSIVE FetchUrls(_, _, _)
FetchUrls(responses, i, td) ==
  IF i > Len(responses)
  THEN [found |-> FALSE, contacted |-> Len(responses), sats |-> << >>,
        tle_data |-> td, text |-> << >>]
  ELSE IF UrlAccepted(responses[i])
  THEN LET parsed == parse_tles(responses[i].text)
       IN  IF Len(parsed.sats) > 0
           THEN [found |-> TRUE, contacted |-> i, sats |-> parsed.sats,
                 tle_data |-> parsed.tle_data, text |-> responses[i].text]
           ELSE FetchUrls(responses, i + 1, parsed.tle_data)
  ELSE FetchUrls(responses, i + 1, td)

\* the time file left as it was
SaveTimeSkipped(stamp, now) == stamp

\* _save_to_cache, line 121
SaveTime(stamp, now) == File(StrFloat(now))

\* _create_dummy_satellites, lines 128-140: the satellites of the loop
DummyFleet ==
  [ i \in 1..DummyCount |->
      EarthSatellite(<< "1", " " >> \o StrInt(49999 + i),
                     << "2", " " >> \o StrInt(49999 + i),
                     << "STARLINK-" >> \o StrInt(999 + i)) ]

\* _create_dummy_satellites: EarthSatellite accepted the element lines the
\* loop formats (count is DummyCount) or raised on them (count is 0)
create_dummy_satellites(count) == SubSeq(DummyFleet, 1, count)

\* the element sets a directory or a URL can hold: group i of a text is a
\* name line and two element lines that carry i
NameLine(i) == << "S" >> \o StrInt(i)
Line1(i) == << "1", " " >> \o StrInt(i)
Line2(i) == << "2", " " >> \o StrInt(i)
BlankLine == << " " >>

GroupKinds == {"valid", "unreadable", "no_prefix", "blank_name", "cut_short"}

\* the three lines of group i
Group(kind, i) ==
  CASE kind = "valid" -> << NameLine(i), Line1(i), Line2(i) >>
    [] kind = "unreadable" -> << NameLine(i), Line1(i) \o << "?" >>, Line2(i) >>
    [] kind = "no_prefix" -> << NameLine(i), Line2(i), Line1(i) >>
    [] kind = "blank_name" -> << BlankLine, Line1(i), Line2(i) >>
    [] kind = "cut_short" -> << NameLine(i), Line1(i), BlankLine >>

RECURSIVE TextOf(_, _)
TextOf(kinds, i) ==
  IF i > Len(kinds) THEN << >>
  ELSE Group(kinds[i], i) \o TextOf(kinds, i + 1)

HtmlPage == << BlankLine, Doctype \o << " ", "h", "t", "m", "l", ">" >> >>

\* what a cache file holds, and what a URL sends
SampleTexts ==
  { TextOf(<< >>, 1), TextOf(<< "valid" >>, 1), TextOf(<< "unreadable" >>, 1),
    TextOf(<< "unreadable", "valid" >>, 1) }
NoResponse == [kind |-> "error", status_code |-> 0, text |-> << >>]
UrlResponses ==
  { NoResponse, [kind |-> "response", status_code |-> 403, text |-> HtmlPage],
    [kind |-> "response", status_code |-> 200, text |-> HtmlPage] }
    \cup { [kind |-> "response", status_code |-> 200, text |-> t] :
             t \in {TextOf(<< "valid" >>, 1), TextOf(<< "unreadable" >>, 1)} }

\* time.time() at a call
Clock == {3600, 7200, 10800}

\* the files a cache directory holds when the service is made over it
DiskCaches == {NoFile} \cup { File(t) : t \in SampleTexts }
DiskTimes ==
  {NoFile, File(StrFloat(0)), File(<< " ", "7", "2", "0", "0" >>),
   File(<< "n", "o", "w" >>)}

\* how many of the dummy satellites EarthSatellite accepts
DummyCounts == {0, DummyCount}

\* StarlinkService.__init__ over a cache directory holding these two files
StarlinkService(data, stamp) ==
  /\ cache_file' = data
  /\ cache_time_file' = stamp
  /\ service_satellites' = << >>
  /\ tle_data' = << >>
  /\ call' = [op |-> "StarlinkService"]
  /\ UNCHANGED << worldVars, agentVars, failureVars, poolVars, orchVars >>

\* _load_from_cache
load_from_cache(data) == parse_tles(data.content)

\* no URL contacted
NoFetch ==
  [found |-> FALSE, contacted |-> 0, sats |-> << >>, tle_data |-> << >>,
   text |-> << >>]

\* fetch_and_cache_tles at time now, the URLs answering with responses
fetch_and_cache_tles(now, responses, dummies) ==
  \E fresh \in {CacheIsFresh(cache_file, cache_time_file, now)},
     loaded \in {load_from_cache(cache_file)} :
  \E fetched \in {IF fresh THEN NoFetch
                  ELSE FetchUrls(responses, 1, tle_data)} :
  /\ IF fresh
     THEN /\ service_satellites' = loaded.sats
          /\ tle_data' = loaded.tle_data
          /\ call' = [op |-> "fetch_and_cache_tles", now |-> now,
                      responses |-> responses, contacted |-> 0,
                      from |-> "cache", result |-> loaded.sats]
          /\ UNCHANGED << cache_file, cache_time_file >>
     ELSE IF fetched.found
     THEN /\ cache_file' = File(fetched.text)
          /\ cache_time_file' = SaveTime(cache_time_file, now)
          /\ service_satellites' = fetched.sats
          /\ tle_data' = fetched.tle_data
          /\ call' = [op |-> "fetch_and_cache_tles", now |-> now,
                      responses |-> responses,
                      contacted |-> fetched.contacted, from |-> "url",
                      result |-> fetched.sats]
     ELSE IF cache_file.exists
     THEN /\ service_satellites' = loaded.sats
          /\ tle_data' = loaded.tle_data
          /\ call' = [op |-> "fetch_and_cache_tles", now |-> now,
                      responses |-> responses,
                      contacted |-> fetched.contacted,
                      from |-> "expired_cache", result |-> loaded.sats]
          /\ UNCHANGED << cache_file, cache_time_file >>
     ELSE /\ tle_data' = fetched.tle_data
          /\ call' = [op |-> "fetch_and_cache_tles", now |-> now,
                      responses |-> responses,
                      contacted |-> fetched.contacted, from |-> "dummy",
                      result |-> create_dummy_satellites(dummies)]
          /\ UNCHANGED << cache_file, cache_time_file, service_satellites >>
  /\ UNCHANGED << worldVars, agentVars, failureVars, poolVars, orchVars >>

\* StarlinkService.get_tle_list and get_satellites
get_tle_list == tle_data
get_satellites == service_satellites

\* _parse_tles called with the text of these groups
parse_tles_call(kinds) ==
  /\ tle_data' = parse_tles(TextOf(kinds, 1)).tle_data
  /\ call' = [op |-> "_parse_tles", text |-> TextOf(kinds, 1),
              result |-> parse_tles(TextOf(kinds, 1)).sats]
  /\ UNCHANGED << worldVars, agentVars, failureVars, poolVars, orchVars,
                  cache_file, cache_time_file, service_satellites >>

\* ---------------------------------------- the orchestrator's fetch_tles
\* main.fetch_tles reads and writes tle_cache.txt and tle_cache_time.txt of
\* the working directory, the two files of a StarlinkService made over "."

Kw403 == << "4", "0", "3" >>
KwForbidden == << "F", "o", "r", "b", "i", "d", "d", "e", "n" >>
HtmlTag == << "<", "h", "t", "m", "l" >>

\* fetch_tles, line 253: the body taken for a rejection page
IsRejectionPage(text) ==
  LET t == SplitLines(text)
  IN  \/ StartsWith(t[1], Doctype)
      \/ StartsWith(t[1], HtmlTag)
      \/ \E i \in 1..Len(t) : Contains(t[i], Kw403)
      \/ \E i \in 1..Len(t) : Contains(t[i], KwForbidden)

\* fetch_tles, lines 291-293 and 301: the lines kept for the cache file
RECURSIVE RawTleText(_)
RawTleText(sats) ==
  IF sats = << >> THEN << >>
  ELSE << sats[1].name, sats[1].line1, sats[1].line2 >>
         \o RawTleText(Tail(sats))

\* fetch_tles, lines 209-224, 259-274, 326-341: the satellites of the
\* cache file, none if it is not there
CacheSatellites(data) ==
  IF data.exists THEN parse_tles(data.content).sats ELSE << >>

NoneFetched == [from |-> "none", contacted |-> 3, sats |-> << >>]

\* fetch_tles, lines 238-320: the URLs from the i-th on
RECURSIVE FetchTlesUrls(_, _, _)
FetchTlesUrls(responses, i, data) ==
  IF i > Len(responses) THEN NoneFetched
  ELSE
    LET r == responses[i]
    IN  IF r.kind # "response" \/ r.status_code # 200
        THEN FetchTlesUrls(responses, i + 1, data)
        ELSE IF IsRejectionPage(r.text)
        THEN IF Len(CacheSatellites(data)) > 0
             THEN [from |-> "expired_cache", contacted |-> i,
                   sats |-> CacheSatellites(data)]
             ELSE FetchTlesUrls(responses, i + 1, data)
        ELSE IF Len(parse_tles(r.text).sats) > 0
        THEN [from |-> "url", contacted |-> i,
              sats |-> parse_tles(r.text).sats]
        ELSE FetchTlesUrls(responses, i + 1, data)

\* fetch_tles() at time now, the three URLs answering with responses
fetch_tles(now, responses) ==
  \E fresh \in {/\ CacheIsFresh(cache_file, cache_time_file, now)
                /\ Len(CacheSatellites(cache_file)) > 0} :
  \E fetched \in {IF fresh THEN NoneFetched
                  ELSE FetchTlesUrls(responses, 1, cache_file)} :
  /\ IF fresh
     THEN /\ call' = [op |-> "fetch_tles", now |-> now,
                      responses |-> responses, contacted |-> 0,
                      outcome |-> "return", from |-> "cache",
                      result |-> CacheSatellites(cache_file)]
          /\ UNCHANGED << cache_file, cache_time_file >>
     ELSE IF fetched.from = "url"
     THEN /\ cache_file' = File(RawTleText(fetched.sats))
          /\ cache_time_file' = File(StrFloat(now))
          /\ call' = [op |-> "fetch_tles", now |-> now,
                      responses |-> responses,
                      contacted |-> fetched.contacted,
                      outcome |-> "return", from |-> "url",
                      result |-> fetched.sats]
     ELSE IF fetched.from = "expired_cache"
     THEN /\ call' = [op |-> "fetch_tles", now |-> now,
                      responses |-> responses,
                      contacted |-> fetched.contacted,
                      outcome |-> "return", from |-> "expired_cache",
                      result |-> fetched.sats]
          /\ UNCHANGED << cache_file, cache_time_file >>
     ELSE IF Len(CacheSatellites(cache_file)) > 0
     THEN /\ call' = [op |-> "fetch_tles", now |-> now,
                      responses |-> responses, contacted |-> 3,
                      outcome |-> "return", from |-> "expired_cache",
                      result |-> CacheSatellites(cache_file)]
          /\ UNCHANGED << cache_file, cache_time_file >>
     ELSE /\ call' = [op |-> "fetch_tles", now |-> now,
                      responses |-> responses, contacted |-> 3,
                      outcome |-> "raise", from |-> "none",
                      result |-> << >>]
          /\ UNCHANGED << cache_file, cache_time_file >>
  /\ UNCHANGED << worldVars, agentVars, failureVars, poolVars, orchVars,
                  service_satellites, tle_data >>

\* what a URL sends to fetch_tles: an error, a 403 page, a 200 page, and
\* element sets of one record, whose number is 1 or 403
CatalogNumbers == {1, 403}
Record(i) == Group("valid", i)
MainUrlBodies ==
  { Record(i) : i \in CatalogNumbers }
    \cup { Record(1) \o Record(403), HtmlPage, Group("unreadable", 1) }
MainUrlResponses ==
  { NoResponse, [kind |-> "response", status_code |-> 403, text |-> HtmlPage] }
    \cup { [kind |-> "response", status_code |-> 200, text |-> t] :
             t \in MainUrlBodies }

Batches == UNION { [1..n -> ClassDraws \X SizesGb] : n \in 0..MaxBatch }

\* job ids handed to route_job: every pending id and one that is not pending
JobIdInputs == { pending_jobs[i].id : i \in 1..Len(pending_jobs) } \cup {job_counter}

\* world-engine calls: initialize, the clock, route_job, cut_fiber_between
NextEngine ==
  \/ \E n \in 1..MaxSats : initialize(n)
  \/ \E hour \in Hours, batch \in Batches : advance_time(hour, batch, MaxJobs)
  \/ \E j \in JobIdInputs, n \in NodeIdInputs : RouteJobCall(j, n)
  \/ \E p \in EngineRegionPairs : cut_fiber_between(p[1], p[2])

SpecEngine == Init /\ [][NextEngine]_vars

\* the routing controller driving the world engine
NextAgent ==
  \/ \E n \in 1..MaxSats : initialize(n)
  \/ \E hour \in Hours, batch \in Batches :
        advance_time(hour, batch, MaxAgentJobs)
  \/ \E p \in RegionPairs : cut_fiber_between(p[1], p[2])
  \/ \E a \in 0..(Len(GroundSites) + MaxSats) : decide_for_next_job(a)

SpecAgent == Init /\ [][NextAgent]_vars

\* scenarios and their hooks on a world with pending jobs
NextScenario ==
  \/ \E n \in 1..MaxSats : initialize(n)
  \/ \E hour \in Hours, batch \in Batches :
        advance_time(hour, batch, MaxAgentJobs)
  \/ \E r \in LoadRegions, m \in LoadMultipliers : set_regional_load(r, m)
  \/ \E p \in RegionPairs : cut_fiber_between(p[1], p[2])
  \/ \E s \in ShellIds, r \in ShellRegions : disable_leo_shell(s, r)
  \/ \E id \in ScenarioIds : apply_scenario(id)

SpecScenario == Init /\ [][NextScenario]_vars

\* the job batches and route targets of the larger runs: one class, one size
SingleBatches == UNION { [1..n -> {1} \X SizesGb] : n \in 0..MaxBatch }
RerouteNodes == {"abilene_edge", "leo_0"}
FailureNodes == {"abilene_edge"}

\* route_job for the job at the head of the queue
RouteHead(node_id) ==
  /\ pending_jobs # << >>
  /\ RouteJobCall(Head(pending_jobs).id, node_id)

\* the RL-lite scenario routes
NextPrompt ==
  \/ \E n \in 1..MaxSats : initialize(n)
  \/ \E id \in ScenarioIds : apply_scenario(id)
  \/ \E prompt \in Prompts : scenario_from_text(prompt)
  \/ list_presets

SpecPrompt == Init /\ [][NextPrompt]_vars

\* a world with enough routes for trigger_global_reroute to cut them
NextReroute ==
  \/ \E n \in 1..MaxSats : initialize(n)
  \/ \E hour \in Hours, batch \in SingleBatches :
        advance_time(hour, batch, MaxRerouteJobs)
  \/ \E n \in RerouteNodes : RouteHead(n)
  \/ trigger_global_reroute

SpecReroute == Init /\ [][NextReroute]_vars

\* the failure agent stepping a world whose clock also runs on its own
NextFailure ==
  \/ \E n \in 1..MaxSats : initialize(n)
  \/ \E hour \in Hours, batch \in SingleBatches :
        advance_time(hour, batch, MaxFailSteps * MaxBatch)
  \/ \E n \in FailureNodes : RouteHead(n)
  \/ \E a \in {0, 1}, hour \in Hours, batch \in SingleBatches :
        failure_agent_step(a, hour, batch, MaxFailSteps * MaxBatch)

SpecFailure == Init /\ [][NextFailure]_vars

\* every call that reaches the world engine
NextWorld ==
  \/ \E n \in 1..MaxSats : initialize(n)
  \/ \E hour \in Hours, batch \in SingleBatches :
        advance_time(hour, batch, MaxAgentJobs)
  \/ \E n \in FailureNodes : RouteHead(n)
  \/ \E id \in ScenarioIds : apply_scenario(id)
  \/ \E prompt \in Prompts : scenario_from_text(prompt)
  \/ trigger_global_reroute
  \/ \E a \in 0..(Len(GroundSites) + MaxSats) : decide_for_next_job(a)
  \/ \E a \in {0, 1}, hour \in Hours, batch \in SingleBatches :
        failure_agent_step(a, hour, batch, MaxAgentJobs)

SpecWorld == Init /\ [][NextWorld]_vars

\* the orchestrator: startup, the tick task and the request handlers
NextOrchestrator ==
  \/ \E first \in FetchOutcomes, retry \in FetchOutcomes,
        dummies \in PlaceholderCounts : startup(first, retry, dummies)
  \/ \E failed \in BOOLEAN :
        update_simulation(failed, 9, main_satellites > 0, FirstNearest,
                          SunlitDraw)
  \/ update_simulation_sleep
  \/ \E h \in Handlers, e \in GetStateEndpoints : get_state_enter(h, e)
  \/ \E h \in Handlers : get_state_serialize(h)
  \/ \E h \in Handlers : get_state_return(h)
  \/ \E h \in Handlers : api_get_state(h)
  \/ \E h \in Handlers, upd \in ScenarioUpdates : update_scenario(h, upd)

SpecOrchestrator == Init /\ [][NextOrchestrator]_vars

\* the tick task beside one client polling GET /state
TickLoopHandlers == {1}

NextTickLoop ==
  \/ \E first \in FetchOutcomes, retry \in FetchOutcomes,
        dummies \in PlaceholderCounts : startup(first, retry, dummies)
  \/ \E failed \in BOOLEAN :
        update_simulation(failed, 9, main_satellites > 0, FirstNearest,
                          SunlitDraw)
  \/ update_simulation_sleep
  \/ \E h \in TickLoopHandlers : get_state_enter(h, "/state")
  \/ \E h \in TickLoopHandlers : get_state_serialize(h)
  \/ \E h \in TickLoopHandlers : get_state_return(h)

\* the scheduling of the event loop: a sleep ends, a handler that can run
\* does run, and asyncio.Lock hands the lock to its waiters in turn, so the
\* tick waiting for the lock gets it
TickLoopFairness ==
  /\ WF_vars(update_simulation_sleep)
  /\ SF_vars(\E failed \in BOOLEAN :
               update_simulation(failed, 9, main_satellites > 0,
                                 FirstNearest, SunlitDraw))
  /\ \A h \in TickLoopHandlers :
       WF_vars(get_state_serialize(h)) /\ WF_vars(get_state_return(h))

SpecTickLoop == Init /\ [][NextTickLoop]_vars /\ TickLoopFairness

\* the scenario control block: one client posting to /scenario and polling
\* GET /state beside the tick task
ControlHandlers == {1}

NextControl ==
  \/ \E retry \in FetchOutcomes :
        startup([kind |-> "return", n |-> MaxSats], retry, DummySatellites)
  \/ \E failed \in BOOLEAN :
        update_simulation(failed, 9, main_satellites > 0, FirstNearest,
                          SunlitDraw)
  \/ update_simulation_sleep
  \/ \E h \in ControlHandlers : get_state_enter(h, "/state")
  \/ \E h \in ControlHandlers : get_state_serialize(h)
  \/ \E h \in ControlHandlers : get_state_return(h)
  \/ \E h \in ControlHandlers, upd \in ControlUpdates : update_scenario(h, upd)

SpecControl == Init /\ [][NextControl]_vars

\* the tick's metrics under every scenario block: the hours of the fewest
\* and of the most jobs, with and without an orbital node
TickHours == {3, 9}

NextTickMetrics ==
  \/ \E retry \in FetchOutcomes :
        startup([kind |-> "return", n |-> MaxSats], retry, DummySatellites)
  \/ \E failed \in BOOLEAN, hour \in TickHours, propagated \in BOOLEAN,
        nearest \in NearestChoices(main_satellites), draw \in Draws :
        update_simulation(failed, hour, propagated, nearest, draw)
  \/ update_simulation_sleep
  \/ \E h \in ControlHandlers, upd \in ControlUpdates : update_scenario(h, upd)

SpecTickMetrics == Init /\ [][NextTickMetrics]_vars

\* the Starlink service over every cache directory, the URLs answering in
\* every way
NextStarlink ==
  \/ \E data \in DiskCaches, stamp \in DiskTimes : StarlinkService(data, stamp)
  \/ \E now \in Clock, r1 \in UrlResponses, r2 \in UrlResponses,
        dummies \in (IF cache_file.exists THEN {DummyCount} ELSE DummyCounts) :
        fetch_and_cache_tles(now, << r1, r2 >>, dummies)

SpecStarlink == Init /\ [][NextStarlink]_vars

\* the texts of up to MaxTleGroups groups
TleGroupLists == UNION { [1..n -> GroupKinds] : n \in 0..MaxTleGroups }

NextParse ==
  \/ \E data \in {NoFile, File(TextOf(<< "valid" >>, 1))},
        stamp \in {NoFile, File(StrFloat(0))} : StarlinkService(data, stamp)
  \/ \E kinds \in TleGroupLists : parse_tles_call(kinds)

SpecParse == Init /\ [][NextParse]_vars

\* satellite lists handed to initialize, the empty one included
SatelliteCounts == 0..MaxSats

\* a world engine initialized again while its clock runs and jobs are routed
NextRebuild ==
  \/ \E n \in SatelliteCounts : initialize(n)
  \/ \E hour \in Hours, batch \in Batches : advance_time(hour, batch, MaxJobs)
  \/ \E j \in JobIdInputs, n \in NodeIdInputs : RouteJobCall(j, n)

SpecRebuild == Init /\ [][NextRebuild]_vars

\* the mode of a body posted to /scenario is any string (ScenarioUpdate.mode
\* is Optional[str]): the three modes the tick knows, "normal", and one it
\* does not know
PostedModes ==
  {NoneValue, "normal", "price_spike", "solar_storm", "fiber_cut",
   "maintenance"}
ModeUpdates ==
  { [mode |-> md, has_percent |-> FALSE, orbitOffloadPercent |-> 0] :
      md \in PostedModes }

\* the scenario mode: one client posting modes to /scenario beside the tick
NextModes ==
  \/ \E retry \in FetchOutcomes :
        startup([kind |-> "return", n |-> MaxSats], retry, DummySatellites)
  \/ \E failed \in BOOLEAN, draw \in Draws :
        update_simulation(failed, 9, main_satellites > 0, FirstNearest, draw)
  \/ update_simulation_sleep
  \/ \E h \in ControlHandlers, upd \in ModeUpdates : update_scenario(h, upd)

SpecModes == Init /\ [][NextModes]_vars

\* the sim routes under load: the world initialized once, the clock task
\* advancing it, step_routing calls on the threads of the pool, and
\* step_failure calls
NextPool ==
  \/ \E n \in 1..MaxSats : nodes = << >> /\ initialize(n)
  \/ \E hour \in Hours, batch \in SingleBatches :
        advance_time(hour, batch, MaxAgentJobs)
  \/ \E t \in PoolThreads, a \in 0..(Len(GroundSites) + MaxSats) :
        step_routing_reset(t, a)
  \/ \E t \in PoolThreads : step_routing_find(t)
  \/ \E t \in PoolThreads : step_routing_filter(t)
  \/ \E t \in PoolThreads : step_routing_store(t)
  \/ \E t \in PoolThreads : step_routing_append(t)
  \/ \E a \in {0, 1}, hour \in Hours, batch \in SingleBatches :
        failure_agent_step(a, hour, batch, MaxAgentJobs)

SpecPool == Init /\ [][NextPool]_vars

\* step_failure calls beside step_routing calls on the threads of the pool:
\* the jobs are the ones the failure env's advance_time generates, and
\* the routing agent draws its first candidate every time.  The
\* failure agent is followed up to its first update that changes a weight:
\* the weights are unbounded from there on.
NextPoolFailure ==
  \/ \E n \in 1..MaxSats : nodes = << >> /\ initialize(n)
  \/ \E t \in PoolThreads : step_routing_reset(t, 0)
  \/ \E t \in PoolThreads : step_routing_find(t)
  \/ \E t \in PoolThreads : step_routing_filter(t)
  \/ \E t \in PoolThreads : step_routing_store(t)
  \/ \E t \in PoolThreads : step_routing_append(t)
  \/ \E a \in {0, 1}, hour \in Hours, batch \in SingleBatches :
        /\ \A x \in {0, 1} : failure_w[x] = ZeroState4
        /\ failure_agent_step(a, hour, batch, MaxJobs)

SpecPoolFailure == Init /\ [][NextPoolFailure]_vars

\* the orchestrator's fetch_tles over the cache directories
NextFetch ==
  \/ \E data \in DiskCaches, stamp \in DiskTimes : StarlinkService(data, stamp)
  \/ \E now \in Clock, r1 \in MainUrlResponses, r2 \in MainUrlResponses :
        fetch_tles(now, << r1, r2, NoResponse >>)

SpecFetch == Init /\ [][NextFetch]_vars

\* ================================================================ claims
Range(seq) == { seq[i] : i \in 1..Len(seq) }

LastRoute(routes) == routes[Len(routes)]

IsLeo(node) == node.node_type = "leo"

\* the candidate list the head pending job gets in the current state
HeadCandidates ==
  get_candidate_nodes_for_job(pending_jobs, nodes, disabled_shells,
                              Head(pending_jobs).id)

\* C1: decide_for_next_job, called with a pending job and a non-empty
\* candidate list, returns a decision for the head pending job, targeted at
\* the node the job was routed to, with source "agent", and the last active
\* route then has source "agent".
C1_DecideReturnsAgentDecision ==
  [][ ( /\ call'.op = "decide_for_next_job"
        /\ pending_jobs # << >>
        /\ HeadCandidates # << >> )
      => ( /\ call'.outcome = "decision"
           /\ call'.decision.job_id = Head(pending_jobs).id
           /\ call'.decision.target_node_id
                = LastRoute(active_routes').target_node_id
           /\ call'.decision.source = "agent"
           /\ LastRoute(active_routes').source = "agent" ) ]_vars

\* C2: route_job for a pending job and a gateway node (capacity and power
\* cost both zero) raises no division by zero and returns the metrics.
C2_GatewayRouteReturnsMetrics ==
  [][ ( /\ call'.op = "route_job"
        /\ HasJob(pending_jobs, call'.job_id)
        /\ call'.node_id \in GatewayIds
        /\ HasNode(nodes, call'.node_id) )
      => call'.result.kind = "metrics" ]_vars

\* C3: route_job(j, n) for a pending job j and a known node n of positive
\* capacity takes exactly j out of pending_jobs, the other jobs keeping
\* their order, appends the one decision (j, n, "rule_based") to
\* active_routes, and leaves time_s, nodes, links and the scenario tables
\* as they were.
C3_RouteJobEffect ==
  [][ ( /\ call'.op = "route_job"
        /\ HasJob(pending_jobs, call'.job_id)
        /\ HasNode(nodes, call'.node_id)
        /\ \A i \in 1..Len(nodes) :
             nodes[i].id = call'.node_id => nodes[i].capacity_flops > 0 )
      => ( /\ \E i \in 1..Len(pending_jobs) :
                /\ pending_jobs[i].id = call'.job_id
                /\ pending_jobs' = SubSeq(pending_jobs, 1, i - 1)
                                   \o SubSeq(pending_jobs, i + 1,
                                             Len(pending_jobs))
           /\ \A k \in 1..Len(pending_jobs') :
                pending_jobs'[k].id # call'.job_id
           /\ Len(active_routes') = Len(active_routes) + 1
           /\ SubSeq(active_routes', 1, Len(active_routes)) = active_routes
           /\ LastRoute(active_routes')
                = [job_id |-> call'.job_id, target_node_id |-> call'.node_id,
                   source |-> "rule_based"]
           /\ UNCHANGED << time_s, nodes, links, scenarioVars >> ) ]_vars

\* C3 witness: a job between two other pending jobs was routed
C3_Witness ==
  /\ call.op = "route_job"
  /\ call.result.kind = "metrics"
  /\ Len(pending_jobs) = 2
  /\ pending_jobs[1].id < call.job_id
  /\ call.job_id < pending_jobs[2].id
  /\ active_routes # << >>

\* C4: route_job with a job id that is not pending, or a node id that is
\* not in the node table, returns the error dict ("job_not_found", else
\* "node_not_found") instead of raising and leaves pending_jobs and
\* active_routes as they were.
C4_RouteJobErrors ==
  [][ ( /\ call'.op = "route_job"
        /\ \/ ~HasJob(pending_jobs, call'.job_id)
           \/ ~HasNode(nodes, call'.node_id) )
      => ( /\ call'.result.kind = "error"
           /\ call'.result.error
                = IF \A i \in 1..Len(pending_jobs) :
                       pending_jobs[i].id # call'.job_id
                  THEN "job_not_found" ELSE "node_not_found"
           /\ UNCHANGED << pending_jobs, active_routes >> ) ]_vars

\* C4 witness: an unknown node was named for a job that is pending
C4_Witness ==
  /\ call.op = "route_job"
  /\ call.result.kind = "error"
  /\ call.result.error = "node_not_found"
  /\ HasJob(pending_jobs, call.job_id)
  /\ active_routes # << >>

\* C5: with an empty pending queue decide_for_next_job returns no decision
\* and pending_jobs, active_routes and the bandit's weights stay the same.
C5_DecideOnEmptyQueue ==
  [][ ( call'.op = "decide_for_next_job" /\ pending_jobs = << >> )
      => ( /\ call'.outcome = "none"
           /\ UNCHANGED << pending_jobs, active_routes, w >> ) ]_vars

\* C5 witness: no decision on a drained queue, after the agent has learnt
C5_Witness ==
  /\ call.op = "decide_for_next_job"
  /\ call.outcome = "none"
  /\ pending_jobs = << >>
  /\ active_routes # << >>
  /\ w # ZeroState

\* C6: for every pending job the candidate list holds, once each, exactly
\* the nodes of positive capacity that are no gateway and no LEO node whose
\* region is the recorded region of a disabled shell; no gateway is in it.
C6_CandidatesExact ==
  \A i \in 1..Len(pending_jobs) :
    LET c == get_candidate_nodes_for_job(pending_jobs, nodes,
                                         disabled_shells, pending_jobs[i].id)
        disabledRegions == { disabled_shells[sh] : sh \in DOMAIN disabled_shells }
    IN  /\ Range(c) = { nd \in Range(nodes) :
                          /\ nd.capacity_flops > 0
                          /\ nd.id \notin GatewayIds
                          /\ ~(IsLeo(nd) /\ nd.region \in disabledRegions) }
        /\ Cardinality(Range(c)) = Len(c)
        /\ \A k \in 1..Len(c) : c[k].id \notin GatewayIds

\* C6 witness: a pending job, a satellite, and a disabled shell whose region
\* is not the satellites', so that LEO nodes stay candidates
C6_Witness ==
  /\ pending_jobs # << >>
  /\ satellites >= 1
  /\ DOMAIN disabled_shells # {}
  /\ \E k \in 1..Len(HeadCandidates) : IsLeo(HeadCandidates[k])

C8_LatencyDoubledOnce ==
  ( call.op = "route_job" /\ call.result.kind = "metrics" )
  => LET node == GetNode(nodes, call.node_id)
         baseline == IF node.node_type = "leo" THEN 50 ELSE 10
         cut == \E i \in 1..Len(fiber_cuts) :
                  node.region = fiber_cuts[i][1] \/ node.region = fiber_cuts[i][2]
     IN  call.result.latency_ms = IF cut THEN 2 * baseline ELSE baseline

\* C9: route_job reports slo_violated exactly when latency_ms exceeds the
\* job's latency_slo_ms, and the reward of that step is 5.0 lower than the
\* reward -0.001 * latency_ms - cost_usd of the same route without violation.
C9_SloPenalty ==
  [][ ( /\ call'.op = "decide_for_next_job"
        /\ call'.outcome = "raise"
        /\ call'.exc = "AttributeError" )
      => LET job == Head(pending_jobs)
             res == call'.result
             late == res.latency_ms > job.latency_slo_ms
             unpenalised == 0 - 10000 * res.latency_ms - res.cost_usd
         IN  /\ res.kind = "metrics"
             /\ res.slo_violated = late
             /\ call'.reward = IF late THEN unpenalised - 50000000
                               ELSE unpenalised ]_vars

\* C9 witness: a step whose route violated the SLO and cost something
C9_Witness ==
  /\ call.op = "decide_for_next_job"
  /\ call.outcome = "raise"
  /\ call.exc = "AttributeError"
  /\ call.result.slo_violated
  /\ call.result.cost_usd > 0
  /\ call.reward < 0 - 50000000

\* C10: apply_scenario with "default", or with an id that no preset has,
\* leaves regional_load_multipliers, fiber_cuts and disabled_shells as they
\* were.
C10_DefaultAndUnknownAreNoOps ==
  [][ ( /\ call'.op = "apply_scenario"
        /\ \/ call'.scenario_id = "default"
           \/ call'.scenario_id \notin
                {"asia_sports_final", "transatlantic_fiber_cut",
                 "leo_shell_outage"} )
      => UNCHANGED << regional_load_multipliers, fiber_cuts,
                      disabled_shells >> ]_vars

\* C10 witness: "default" applied to a world that holds scenario effects
C10_Witness ==
  /\ call.op = "apply_scenario"
  /\ call.scenario_id = "default"
  /\ fiber_cuts # << >>
  /\ DOMAIN disabled_shells # {}
  /\ DOMAIN regional_load_multipliers # {}

\* C11: no call removes an entry of regional_load_multipliers, of fiber_cuts
\* or of disabled_shells: on every step the regions and the shells recorded
\* before are still recorded after, and the cuts recorded before are still
\* the first cuts of the list, in the same order.
C11_ScenarioEffectsKept ==
  [][ /\ DOMAIN regional_load_multipliers
           \subseteq DOMAIN regional_load_multipliers'
      /\ DOMAIN disabled_shells \subseteq DOMAIN disabled_shells'
      /\ Len(fiber_cuts) <= Len(fiber_cuts')
      /\ \A i \in 1..Len(fiber_cuts) : fiber_cuts'[i] = fiber_cuts[i] ]_vars

C11_Witness ==
  /\ call.op \in {"failure_agent_step", "trigger_global_reroute",
                  "decide_for_next_job"}
  /\ DOMAIN regional_load_multipliers # {}
  /\ fiber_cuts # << >>
  /\ DOMAIN disabled_shells # {}

\* the word occurs in the prompt, letter case ignored
Mentions(prompt, word) ==
  \E i \in 1..Len(prompt) :
     /\ i + Len(word) - 1 <= Len(prompt)
     /\ \A k \in 1..Len(word) : LowerChar(prompt[i + k - 1]) = word[k]

\* the scenario id the keyword groups give, tested in their fixed order
ExpectedScenarioId(prompt) ==
  IF \E kw \in {KwAsia, KwSports, KwFinal} : Mentions(prompt, kw)
  THEN "asia_sports_final"
  ELSE IF \E kw \in {KwFiber, KwTransatlantic} : Mentions(prompt, kw)
  THEN "transatlantic_fiber_cut"
  ELSE IF \E kw \in {KwLeo, KwOutage, KwShell} : Mentions(prompt, kw)
  THEN "leo_shell_outage"
  ELSE "asia_sports_final"

\* C12: scenario_from_prompt returns for every prompt, and the scenario it
\* returns is the one of the first keyword group (asia/sports/final, then
\* fiber/transatlantic, then leo/outage/shell) a keyword of which occurs in
\* the prompt whatever its letter case, asia_sports_final when none does.
C12_PromptKeywordOrder ==
  [][ call'.op = "scenario_from_text"
      => ( /\ call'.outcome = "return"
           /\ call'.scenario_id = ExpectedScenarioId(call'.prompt) ) ]_vars

C12_Witness ==
  /\ call.op = "scenario_from_text"
  /\ call.prompt = << "F", "I", "B", "E", "R" >>
  /\ call.scenario_id = "transatlantic_fiber_cut"

\* C13: every get_preset_scenarios call returns the catalog of the four
\* scenarios default, asia_sports_final, transatlantic_fiber_cut and
\* leo_shell_outage.
C13_CatalogOfFour ==
  [][ call'.op = "list_presets"
      => ( /\ Len(call'.result) = 4
           /\ { call'.result[i].id : i \in 1..Len(call'.result) }
                = {"default", "asia_sports_final",
                   "transatlantic_fiber_cut", "leo_shell_outage"} ) ]_vars

\* C14: trigger_global_reroute leaves pending_jobs as it was and, with n
\* active routes, leaves active_routes as it was when n <= 10 and otherwise
\* keeps the first n div 2 routes, in their order.
C14_RerouteKeepsFirstHalf ==
  [][ call'.op = "trigger_global_reroute"
      => ( /\ pending_jobs' = pending_jobs
           /\ IF Len(active_routes) <= 10
              THEN active_routes' = active_routes
              ELSE /\ Len(active_routes') = Len(active_routes) \div 2
                   /\ \A i \in 1..Len(active_routes') :
                        active_routes'[i] = active_routes[i] ) ]_vars

C14_Witness ==
  /\ call.op = "trigger_global_reroute"
  /\ call.n = 11
  /\ Len(active_routes) = 5

\* C15: after a step of the failure environment the history holds between 1
\* and 5 samples, in arrival order and ending with the sample just taken;
\* a sample appended to a full window evicts the oldest one and no other.
C15_HistoryWindow ==
  [][ call'.op = "failure_agent_step"
      => ( /\ Len(history') \in 1..5
           /\ history'[Len(history')] = call'.metrics
           /\ call'.metrics.sampled_at = time_s'
           /\ \A i, j \in 1..Len(history') :
                i < j => history'[i].sampled_at < history'[j].sampled_at
           /\ IF call'.did_reset
              THEN /\ Len(history') = 2
                   /\ history'[1].sampled_at = time_s
              ELSE IF Len(history) < 5
              THEN history' = Append(history, call'.metrics)
              ELSE history' = Append(Tail(history), call'.metrics) ) ]_vars

C15_Witness ==
  /\ call.op = "failure_agent_step"
  /\ call.evicted
  /\ Len(history) = 5
  /\ history[1].sampled_at > 0

\* C16: a FailureAgent.step call resets the environment exactly when no step
\* was made before; any later call starts from the next state the previous
\* call returned, and keeps every sample of the history but the one the
\* window evicts; no other call touches the history or the kept state.
C16_ResetOnlyOnFirstStep ==
  [][ /\ call'.op = "failure_agent_step"
         => ( /\ call'.did_reset <=> (history = << >>)
              /\ ~call'.did_reset => call'.state = last_state
              /\ last_state' = call'.next_state
              /\ \A i \in 2..Len(history) :
                   \E k \in 1..Len(history') : history'[k] = history[i] )
      /\ call'.op # "failure_agent_step"
         => UNCHANGED << history, last_state >> ]_vars

C16_Witness ==
  /\ call.op = "failure_agent_step"
  /\ ~call.did_reset
  /\ Len(history) >= 3

\* C17: whatever the two satellite fetches do, startup completes: it
\* initializes the world engine with the satellite list it ended up with and
\* creates the tick task, the energy-price refresher and the world-clock
\* advancer.
C17_StartupCompletes ==
  [][ call'.op = "startup"
      => ( /\ startup_status' = "done"
           /\ satellites' = main_satellites'
           /\ tasks' = {"update_simulation",
                        "update_energy_prices_periodically",
                        "advance_world_time"} ) ]_vars

\* a response of GET /state or GET /snapshot was sent on this step
StateResponded ==
  /\ call'.op = "get_state"
  /\ call'.responded

\* C18: GET /state answers 503 exactly when no tick has completed yet, and
\* a SimState once written is never reset to empty.
C18_UnavailableUntilFirstTick ==
  [][ /\ StateResponded
         => ( /\ response'.status = 503 <=> control.tick = 0
              /\ response'.status = 503 <=> sim_state = NoSimState )
      /\ sim_state # NoSimState => sim_state' # NoSimState ]_vars

C18_Witness ==
  /\ call.op = "get_state"
  /\ call.responded
  /\ response.status = 200
  /\ control.tick >= 1

\* C19: GET /state sends the cached response unchanged when there is one
\* and its tick is at most 2 from the current tick; otherwise it writes the
\* current SimState into the cache slot with the current tick; and every
\* response is the SimState of a tick counter at most 2 behind the current
\* one.
C19_CacheWithinTwoTicks ==
  [][ /\ ( call'.op = "get_state" /\ req[call'.h].pc = "idle"
           /\ sim_state # NoSimState )
         => IF state_cache # NoSimState /\ control.tick - cache_tick <= 2
            THEN /\ call'.responded
                 /\ response'.from_cache
                 /\ response'.body.groundSites = state_cache.groundSites
                 /\ response'.body.satellites = state_cache.satellites
                 /\ UNCHANGED << state_cache, cache_tick >>
            ELSE /\ cache_tick' = control.tick
                 /\ state_cache'.groundSites = sim_state.groundSites
                 /\ state_cache'.metrics = sim_state.metrics
                 /\ state_cache'.satellites.tick = sim_state.satellites.tick
      /\ ( StateResponded /\ response'.status = 200 )
         => ( /\ control'.tick - response'.cache_tick \in 0..2
              /\ response'.body.groundSites.tick
                   = response'.cache_tick - 1 ) ]_vars

C19_Witness ==
  /\ call.op = "get_state"
  /\ call.responded
  /\ response.status = 200
  /\ response.from_cache
  /\ control.tick = response.cache_tick + 2

\* C20: the satellites, ground sites, workload and metrics of one response
\* of GET /state, GET /snapshot or GET /api/state were all computed by one
\* and the same tick.
C20_ResponseFromOneTick ==
  ( /\ response.endpoint \in {"/state", "/snapshot", "/api/state"}
    /\ response.status = 200 )
  => ( /\ response.body.satellites.tick = response.body.groundSites.tick
       /\ response.body.workload.tick = response.body.groundSites.tick
       /\ response.body.metrics.tick = response.body.groundSites.tick
       /\ response.body.satellites.scenario
            = response.body.groundSites.scenario )

C20_Witness ==
  /\ response.endpoint = "/state"
  /\ response.status = 200
  /\ ~response.from_cache
  /\ response.body.satellites.n > GlobalThreshold
  /\ response.body.satellites.tick >= 1
  /\ response.body.satellites.scenario.mode = "solar_storm"

\* the last call was a tick whose body raised
FailedTick == call.op = "update_simulation" /\ call.failed

\* C21: a tick whose body raised leaves the tick task alive and the lock
\* free; the loop then sleeps, comes back to the lock, and another tick is
\* attempted.
C21_FailedTickRetried ==
  /\ [](FailedTick => ( /\ "update_simulation" \in tasks
                        /\ sim_lock = 0
                        /\ tick_task.pc = "sleep" ))
  /\ (FailedTick ~> tick_task.pc = "ready")
  /\ (tick_task.pc = "ready" ~> call.op = "update_simulation")

C21_Witness ==
  /\ call.op = "update_simulation"
  /\ call.after_error
  /\ ~call.failed
  /\ control.tick = 1

\* C22: control.scenario.mode changes only in a POST /scenario that carries
\* a mode, and then to that mode; ticks, GET /state and a POST /scenario
\* without a mode leave it as it is.
C22_ModeChangesOnlyByPost ==
  [][ /\ control'.scenario.mode # control.scenario.mode
         => ( /\ call'.op = "update_scenario"
              /\ call'.update.mode # NoneValue )
      /\ ( call'.op = "update_scenario" /\ call'.update.mode # NoneValue )
         => control'.scenario.mode = call'.update.mode
      /\ call'.op \in {"update_simulation", "update_simulation_sleep",
                       "get_state"}
         => control'.scenario.mode = control.scenario.mode ]_vars

C22_Witness ==
  /\ call.op = "update_simulation"
  /\ state_cache # NoSimState
  /\ state_cache.metrics.scenario.mode = "fiber_cut"
  /\ state_cache.metrics.tick + 2 <= sim_state.metrics.tick
  /\ sim_state.metrics.scenario.mode = "fiber_cut"
  /\ control.scenario.mode = "fiber_cut"

\* C23: control.scenario.orbitOffloadPercent is always in [0, 100]: POST
\* /scenario stores a supplied value clamped into that range and leaves the
\* stored value alone when the body has none.
C23_OffloadPercentClamped ==
  /\ [](control.scenario.orbitOffloadPercent \in 0..100)
  /\ [][ call'.op = "update_scenario"
         => control'.scenario.orbitOffloadPercent =
              IF ~call'.update.has_percent
              THEN control.scenario.orbitOffloadPercent
              ELSE IF call'.update.orbitOffloadPercent < 0 THEN 0
              ELSE IF call'.update.orbitOffloadPercent > 100 THEN 100
              ELSE call'.update.orbitOffloadPercent ]_vars

C23_Witness ==
  /\ call.op = "update_scenario"
  /\ call.update.has_percent
  /\ call.update.orbitOffloadPercent < 0
  /\ control.scenario.orbitOffloadPercent = 0
  /\ control.tick >= 1

\* C24: the orbitSharePercent of every tick is between 0 and 100, and it is
\* 0 exactly when the total orbital power and the total ground power of
\* that tick are both 0.
C24_OrbitShareBound ==
  sim_state # NoSimState
  => LET metrics == sim_state.metrics
         share == metrics.orbitSharePercent
     IN  /\ share.den > 0
         /\ 0 <= share.num
         /\ share.num <= 100 * share.den
         /\ share.num = 0 <=> ( /\ metrics.totalOrbitalPowerMw = 0
                                /\ metrics.totalGroundPowerMw = 0 )

\* C24 amended: the orbitSharePercent of every tick is between 0 and 100,
\* and it is 0 exactly when the total orbital power of that tick is 0,
\* whatever the total ground power is.
C24_ZeroExactlyWithoutOrbitalPower ==
  sim_state # NoSimState
  => LET metrics == sim_state.metrics
         share == metrics.orbitSharePercent
     IN  /\ share.den > 0
         /\ 0 <= share.num
         /\ share.num <= 100 * share.den
         /\ share.num = 0 <=> metrics.totalOrbitalPowerMw = 0

\* a tick that drew ground power and no orbital power published a share of 0
C24_Witness ==
  /\ sim_state # NoSimState
  /\ call.op = "update_simulation"
  /\ sim_state.metrics.totalOrbitalPowerMw = 0
  /\ sim_state.metrics.totalGroundPowerMw > 0
  /\ sim_state.metrics.orbitSharePercent.num = 0

\* C25: whatever the cache directory holds and whatever the URLs answer,
\* fetch_and_cache_tles returns, and returns at least one satellite.
C25_AlwaysAFleet ==
  [][ call'.op = "fetch_and_cache_tles" => Len(call'.result) > 0 ]_vars

\* a URL that gave no fleet: no answer, a rejection, an HTML page, or data
\* with no valid record
UrlFailed(r) ==
  \/ r.kind = "error"
  \/ r.status_code # 200
  \/ ( TextStrip(r.text) # << >> /\ StartsWith(TextStrip(r.text)[1], Doctype) )
  \/ parse_tles(r.text).sats = << >>

\* C26: a cache whose time is less than 2 hours back is parsed and returned
\* and no URL is contacted; a cache 2 hours old or older has the URLs
\* contacted, and when every URL fails that same cache file is parsed and
\* returned.
C26_CacheTtl ==
  [][ ( /\ call'.op = "fetch_and_cache_tles"
        /\ cache_file.exists
        /\ cache_time_file.exists
        /\ Float(cache_time_file.content).ok )
      => LET age == call'.now - Float(cache_time_file.content).value
         IN  /\ age < 7200
                => ( /\ call'.contacted = 0
                     /\ call'.result = parse_tles(cache_file.content).sats
                     /\ UNCHANGED << cache_file, cache_time_file >> )
             /\ age >= 7200
                => ( /\ call'.contacted >= 1
                     /\ ( \A i \in 1..2 : UrlFailed(call'.responses[i]) )
                        => ( /\ call'.contacted = 2
                             /\ call'.result
                                  = parse_tles(cache_file.content).sats
                             /\ UNCHANGED cache_file ) ) ]_vars

C26_Witness ==
  /\ call.op = "fetch_and_cache_tles"
  /\ call.from = "expired_cache"
  /\ call.contacted = 2
  /\ call.now - Float(cache_time_file.content).value = 7200
  /\ Len(call.result) = 1

\* the URL answered HTTP 200 with a body that does not begin with the
\* HTML-document marker
Answered(r) ==
  /\ r.kind = "response"
  /\ r.status_code = 200
  /\ ~( /\ TextStrip(r.text) # << >>
        /\ StartsWith(TextStrip(r.text)[1], Doctype) )

\* the call ended its search at URL k: it contacted the URLs up to k,
\* returned the satellites of k's body and wrote that body and the time of
\* the call into the two cache files
EndedAt(k) ==
  /\ call'.contacted = k
  /\ call'.result = parse_tles(call'.responses[k].text).sats
  /\ cache_file' = File(call'.responses[k].text)
  /\ cache_time_file' = File(StrFloat(call'.now))

\* C27 as stated: when the URLs are consulted, the first that answers HTTP
\* 200 with a body not beginning with the HTML-document marker ends the
\* search: its body is parsed, written to both cache files and returned,
\* and no later URL is contacted.
C27_FirstAnswerEndsSearch ==
  [][ ( call'.op = "fetch_and_cache_tles" /\ call'.from # "cache" )
      => \A k \in 1..2 :
           ( /\ Answered(call'.responses[k])
             /\ \A j \in 1..(k - 1) : ~Answered(call'.responses[j]) )
           => EndedAt(k) ]_vars

\* C27 amended: the search ends at the first URL that answers HTTP 200 with
\* a body not beginning with the HTML-document marker and holding at least
\* one valid record.
Usable(r) == Answered(r) /\ parse_tles(r.text).sats # << >>

C27_FirstUsableAnswerEndsSearch ==
  [][ ( call'.op = "fetch_and_cache_tles" /\ call'.from # "cache" )
      => \A k \in 1..2 :
           ( /\ Usable(call'.responses[k])
             /\ \A j \in 1..(k - 1) : ~Usable(call'.responses[j]) )
           => EndedAt(k) ]_vars

C27_Witness ==
  /\ call.op = "fetch_and_cache_tles"
  /\ call.from = "url"
  /\ call.contacted = 1
  /\ Answered(call.responses[2])
  /\ cache_file = File(call.responses[1].text)
  /\ cache_time_file = File(StrFloat(call.now))

\* the second and third line of group g of a text of 3-line groups
SecondLine(text, g) == text[3 * (g - 1) + 2]
ThirdLine(text, g) == text[3 * g]

\* the second line starts with "1 " and the third with "2 "
HasPrefixes(text, g) ==
  /\ StartsWith(SecondLine(text, g), << "1", " " >>)
  /\ StartsWith(ThirdLine(text, g), << "2", " " >>)

\* the two lines, the blanks around them dropped, have the prefixes and
\* EarthSatellite reads them
IsReadable(text, g) ==
  /\ StartsWith(StripLine(SecondLine(text, g)), << "1", " " >>)
  /\ StartsWith(StripLine(ThirdLine(text, g)), << "2", " " >>)
  /\ ~EarthSatelliteRaises(StripLine(SecondLine(text, g)),
                           StripLine(ThirdLine(text, g)))

\* the groups from g on that have the prefixes (with readable: that
\* EarthSatellite reads), in input order
RECURSIVE GroupsFrom(_, _, _)
GroupsFrom(text, g, readable) ==
  IF 3 * g > Len(text) THEN << >>
  ELSE ( IF ( IF readable THEN IsReadable(text, g)
              ELSE HasPrefixes(text, g) )
         THEN << g >> ELSE << >> )
         \o GroupsFrom(text, g + 1, readable)

\* _parse_tles returned one satellite and left one TLE record for each of
\* these groups, in this order, with the ids sat_1, sat_2, ...
ParsedExactly(groups) ==
  /\ Len(call'.result) = Len(groups)
  /\ Len(tle_data') = Len(groups)
  /\ \A j \in 1..Len(groups) :
       /\ call'.result[j].line1 = StripLine(SecondLine(call'.text, groups[j]))
       /\ call'.result[j].line2 = StripLine(ThirdLine(call'.text, groups[j]))
       /\ tle_data'[j].tleLine1 = call'.result[j].line1
       /\ tle_data'[j].tleLine2 = call'.result[j].line2
       /\ tle_data'[j].id = << "sat_", Digits[j + 1] >>

\* C28 as stated: _parse_tles on a text of 3-line groups returns one
\* satellite and one TLE record for each group whose second line starts
\* with "1 " and whose third line starts with "2 ", in input order, with
\* the ids sat_1..sat_N; the other groups change nothing about these.
C28_OnePerPrefixedGroup ==
  [][ call'.op = "_parse_tles"
      => ParsedExactly(GroupsFrom(call'.text, 1, FALSE)) ]_vars

\* C28 amended: on a text of 3-line groups whose first line is not blank,
\* one satellite and one TLE record for each group whose second and third
\* line, the blanks around them dropped, start with "1 " and "2 " and are
\* read by EarthSatellite, in input order, with the ids sat_1..sat_N.
C28_OnePerReadableGroup ==
  [][ ( /\ call'.op = "_parse_tles"
        /\ call'.text # << >>
        /\ ~IsBlank(call'.text[1]) )
      => ParsedExactly(GroupsFrom(call'.text, 1, TRUE)) ]_vars

C28_Witness ==
  /\ call.op = "_parse_tles"
  /\ Len(call.text) = 6
  /\ Len(call.result) = 1
  /\ EarthSatelliteRaises(call.text[2], call.text[3])
  /\ call.result[1].name = NameLine(2)
  /\ tle_data[1].id = << "sat_", "1" >>

\* C29: World.initialize builds the node and link sets once: a later
\* initialize call, with the same or a different satellite list, leaves
\* nodes and links as the first call built them.
C29_BuiltOnce ==
  [][ (call'.op = "initialize" /\ nodes # << >>)
      => (nodes' = nodes /\ links' = links) ]_vars

\* C29 amended: every initialize call builds the node and link sets for the
\* satellite list it is given: the ground sites, the gateways and one LEO
\* node per satellite, and one uncongested link from every satellite to
\* every gateway and from every gateway to every ground site.
C29_BuiltOnEveryCall ==
  [][ call'.op = "initialize"
      => LET n == call'.satellites
         IN  /\ Len(nodes') = Len(GroundSites) + Len(Gateways) + n
             /\ \A i \in 1..Len(GroundSites) :
                  HasNode(nodes', GroundSites[i].id)
             /\ \A i \in 1..Len(Gateways) : HasNode(nodes', Gateways[i])
             /\ \A i \in 0..(n - 1) : HasNode(nodes', LeoId(i))
             /\ Len(links') = (n + Len(GroundSites)) * Len(Gateways)
             /\ \A k \in 1..Len(links') :
                  /\ links'[k].congestion_level = 0
                  /\ HasNode(nodes', links'[k].src_id)
                  /\ HasNode(nodes', links'[k].dst_id) ]_vars

\* a later initialize call with another satellite list: a job had been
\* routed to leo_0, and the list now given has no satellite
C29_Witness ==
  /\ call.op = "initialize"
  /\ satellites = 0
  /\ \E i \in 1..Len(active_routes) :
       active_routes[i].target_node_id = LeoId(0)
  /\ ~HasNode(nodes, LeoId(0))

\* C30: no active route refers to a job that is still pending, and
\* get_performance_metrics returns avg_latency_ms = 0 and
\* slo_violation_rate = 0, in every state that initialize, advance_time,
\* route_job, trigger_global_reroute and the scenario calls reach.
C30_NoRouteOfPendingJob ==
  /\ \A i \in 1..Len(active_routes) :
       ~HasJob(pending_jobs, active_routes[i].job_id)
  /\ get_performance_metrics(active_routes, pending_jobs, nodes)
       = [avg_latency_ms |-> 0, slo_violation_rate |-> 0]

\* jobs were routed, others are pending, and the routes reach known nodes
C30_Witness ==
  /\ active_routes # << >>
  /\ pending_jobs # << >>
  /\ \A i \in 1..Len(active_routes) :
       HasNode(nodes, active_routes[i].target_node_id)

\* C31: where decide_for_next_job is the only caller of route_job, the jobs
\* are routed in the order generate_jobs created them: the routes are in
\* ascending order of job id (the value of job_counter at creation), and
\* every routed job is older than every job still pending.
C31_RoutedInCreationOrder ==
  /\ \A i, j \in 1..Len(active_routes) :
       i < j => active_routes[i].job_id < active_routes[j].job_id
  /\ \A i \in 1..Len(active_routes), k \in 1..Len(pending_jobs) :
       active_routes[i].job_id < pending_jobs[k].id

\* two successive calls have routed two jobs
C31_Witness ==
  /\ call.op = "decide_for_next_job"
  /\ Len(active_routes) >= 2
  /\ active_routes[1].job_id = 0
  /\ active_routes[2].job_id = 1

\* the satellites that are the hub of some gateway in the last tick
HubSatellites(hub_nodes) == { hub_nodes[g].sat : g \in 1..Len(hub_nodes) }

\* C32: in every tick a satellite that is the hub of some gateway is
\* published with the utilization of that hub, min(1, hub_jobs / 50).
C32_HubUtilizationPublished ==
  [][ (call'.op = "update_simulation" /\ ~call'.failed)
      => \A g \in 1..Len(call'.hub_nodes) :
           LET hub == call'.hub_nodes[g]
           IN  /\ hub.utilization = Min2(50, hub.jobsRunning)
               /\ sim_state'.satellites.utilization[hub.sat]
                    = hub.utilization ]_vars

RECURSIVE SumSeq(_)
SumSeq(q) == IF q = << >> THEN 0 ELSE Head(q) + SumSeq(Tail(q))

\* C35: in every tick the jobsRunning of the ground sites add up to
\* workload.jobsRunningGround and the job counts of the hubs add up to
\* workload.jobsRunningOrbit.
C35_AllRunningJobsAllocated ==
  [][ (call'.op = "update_simulation" /\ ~call'.failed)
      => /\ SumSeq(sim_state'.groundSites.jobsRunning)
              = sim_state'.workload.jobsRunningGround
         /\ SumSeq([ g \in 1..Len(call'.hub_nodes) |->
                       call'.hub_nodes[g].jobsRunning ])
              = sim_state'.workload.jobsRunningOrbit ]_vars

\* C33: control.scenario.mode starts as "normal" and is in every reachable
\* state one of "normal", "price_spike", "solar_storm", "fiber_cut".
C33_ModeIsKnown ==
  /\ call.op = "init" => control.scenario.mode = "normal"
  /\ control.scenario.mode
       \in {"normal", "price_spike", "solar_storm", "fiber_cut"}

\* C34: after fetch_and_cache_tles has returned a fleet, get_satellites()
\* returns that fleet and get_tle_list() holds one record for each of its
\* satellites, in the same order, whichever branch produced the fleet.
C34_GettersHoldReturnedFleet ==
  [][ call'.op = "fetch_and_cache_tles"
      => /\ get_satellites' = call'.result
         /\ Len(get_tle_list') = Len(call'.result)
         /\ \A i \in 1..Len(call'.result) :
              /\ get_tle_list'[i].name = call'.result[i].name
              /\ get_tle_list'[i].tleLine1 = call'.result[i].line1
              /\ get_tle_list'[i].tleLine2 = call'.result[i].line2 ]_vars

\* C36: no two entries of active_routes carry the same job_id, however the
\* step_routing calls interleave with each other and with the clock task.
C36_NoJobRoutedTwice ==
  \A i, j \in 1..Len(active_routes) :
    i # j => active_routes[i].job_id # active_routes[j].job_id

\* C37: no generated job is lost: every job that advance_time has appended
\* is pending, or has its routing decision, or is held by a route_job call
\* that has taken it off the queue and is about to append the decision.
C37_NoJobLost ==
  \A id \in 0..(job_counter - 1) :
    \/ HasJob(pending_jobs, id)
    \/ \E i \in 1..Len(active_routes) : active_routes[i].job_id = id
    \/ \E t \in PoolThreads :
         workers[t].pc = "append" /\ workers[t].meta.job.id = id

\* C38: the failure agent learns nothing: its weights are all zero, and
\* every FailureAgent.step sees the zero state before and after and takes
\* reward 0, whatever routing, clock and scenario calls ran in between.
C38_FailureAgentLearnsNothing ==
  /\ \A a \in {0, 1} : failure_w[a] = ZeroState4
  /\ call.op = "failure_agent_step"
       => /\ call.state = ZeroState4
          /\ call.next_state = ZeroState4
          /\ call.reward = 0

\* C39: apply_scenario is idempotent: applying a preset right after the
\* same preset leaves the load multipliers, the fiber cuts and the disabled
\* shells as the first application left them, and with them the latency
\* route_job computes for every node.
C39_ApplyScenarioIdempotent ==
  [][(/\ call.op = "apply_scenario"
      /\ call'.op = "apply_scenario"
      /\ call'.scenario_id = call.scenario_id)
       => /\ UNCHANGED scenarioVars
          /\ \A i \in 1..Len(nodes) :
               RouteLatency(nodes[i], fiber_cuts')
                 = RouteLatency(nodes[i], fiber_cuts)]_vars

\* a body of whole records, each a name line, a line 1 and a line 2 that
\* EarthSatellite reads
OnlyValidRecords(text) ==
  /\ text # << >>
  /\ Len(text) % 3 = 0
  /\ \A g \in 0..((Len(text) \div 3) - 1) :
       /\ StripLine(text[3 * g + 1]) # << >>
       /\ StartsWith(text[3 * g + 2], << "1", " " >>)
       /\ StartsWith(text[3 * g + 3], << "2", " " >>)
       /\ ~EarthSatelliteRaises(text[3 * g + 2], text[3 * g + 3])

\* C40: when fetch_tles asks the first URL and the answer is a 200 whose
\* body holds valid 3-line records only, the body is accepted: its
\* satellites are returned and the two cache files are written.
C40_ValidBodyAccepted ==
  ( /\ call.op = "fetch_tles"
    /\ call.contacted >= 1
    /\ call.responses[1].kind = "response"
    /\ call.responses[1].status_code = 200
    /\ OnlyValidRecords(call.responses[1].text) )
    => /\ call.from = "url"
       /\ call.contacted = 1
       /\ call.result = parse_tles(call.responses[1].text).sats
       /\ cache_file = File(RawTleText(call.result))
       /\ cache_time_file = File(StrFloat(call.now))

====
